---- MODULE Spec2Model ----
(***************************************************************************)
(* The AWS X-Ray remote sampler of opentelemetry-js-contrib: the rule      *)
(* cache (RuleCache), the matching helpers (wildcardMatch, attributeMatch),*)
(* the FallbackSampler and the sampling engine around them.                *)
(*                                                                         *)
(* Time is Date.now() in milliseconds.  Strings are sequences of one-      *)
(* character strings.  An attribute value is a tagged record, because a    *)
(* span attribute may be a string, a number or absent.  Attribute maps     *)
(* (Object with string keys) are sets of <<key, value>> pairs with         *)
(* distinct keys.  RuleName is the unique key of a rule: the rule lists    *)
(* never hold two rules of one name, but for those SpecDefault passes to   *)
(* updateRules.                                                            *)
(***************************************************************************)
EXTENDS Integers, Sequences, FiniteSets, TLC

(***************************************************************************)
(* Bounds of the model.                                                    *)
(***************************************************************************)
\* how many times the clock is advanced in one behaviour
MaxTicks == 2
\* cap on the requests the appliers count between two reports
MaxCount == 3
\* cap on the requests the rules decide within one second
MaxPerSecond == 3
\* how many rules one GetSamplingRules response carries at most
MaxRules == 2
\* how many targets one GetSamplingTargets response carries at most
MaxTargets == 2
\* how long the patterns given to wildcardMatch are at most
MaxPatternLen == 3
\* how long the values given to wildcardMatch are at most
MaxTextLen == 3
\* rules requests in flight at one time
MaxInFlight == 2

(***************************************************************************)
(* Program constants.                                                      *)
(***************************************************************************)
\* const RULE_CACHE_TTL_MILLIS = 60 * 60 * 1000
RULE_CACHE_TTL_MILLIS == 3600000
DEFAULT_TARGET_POLLING_INTERVAL_SECONDS == 10
\* the pollingInterval of a sampler configured without one: 300 * 1000 ms
DEFAULT_RULES_POLLING_INTERVAL_SECONDS == 300
\* new TraceIdRatioBasedSampler(0.05), as a percentage
FALLBACK_FIXED_RATE_PERCENT == 5
\* new RateLimitingSampler(1)
FALLBACK_RATE_LIMIT == 1
\* Date.now() / 1000
MILLIS_PER_SECOND == 1000

NOT_RECORD == "NOT_RECORD"
RECORD_AND_SAMPLED == "RECORD_AND_SAMPLED"

(***************************************************************************)
(* Strings and attribute values.                                           *)
(***************************************************************************)
Str(s) == [kind |-> "string", chars |-> s]
Num == [kind |-> "number", chars |-> <<>>]
Undefined == [kind |-> "undefined", chars |-> <<>>]

\* String.prototype.toLowerCase on the characters the model uses
LowerChar(c) ==
  CASE c = "A" -> "a"
    [] c = "B" -> "b"
    [] OTHER -> c

toLowerCase(s) == [i \in 1..Len(s) |-> LowerChar(s[i])]

\* the class [.+^${}()|[\]\\] of escapeRegExp
RegExpMetaChars == {".", "+", "^", "$", "{", "}", "(", ")", "|", "[", "]", "\\"}

\* the characters `.` of a RegExp without the s flag does not match
LineTerminators == {"\n", "\r"}

RECURSIVE escapeRegExp(_)
escapeRegExp(p) ==
  IF p = <<>> THEN <<>>
  ELSE IF Head(p) \in RegExpMetaChars
       THEN <<"\\", Head(p)>> \o escapeRegExp(Tail(p))
       ELSE <<Head(p)>> \o escapeRegExp(Tail(p))

RECURSIVE ReplaceChar(_, _, _)
ReplaceChar(s, c, by) ==
  IF s = <<>> THEN <<>>
  ELSE IF Head(s) = c
       THEN by \o ReplaceChar(Tail(s), c, by)
       ELSE <<Head(s)>> \o ReplaceChar(Tail(s), c, by)

convertPatternToRegExp(pattern) ==
  ReplaceChar(ReplaceChar(escapeRegExp(pattern), "*", <<".", "*">>), "?", <<".">>)

\* Whether the RegExp source `re` (as convertPatternToRegExp builds it: escaped
\* characters, `.`, `.*` and literals), anchored with ^ and $, matches text s.
RECURSIVE RegExpMatch(_, _)
RegExpMatch(re, s) ==
  IF re = <<>> THEN s = <<>>
  ELSE IF Head(re) = "\\"
  THEN /\ Len(re) >= 2
       /\ s # <<>>
       /\ Head(s) = re[2]
       /\ RegExpMatch(SubSeq(re, 3, Len(re)), Tail(s))
  ELSE IF Head(re) = "." /\ Len(re) >= 2 /\ re[2] = "*"
  THEN \/ RegExpMatch(SubSeq(re, 3, Len(re)), s)
       \/ /\ s # <<>>
          /\ Head(s) \notin LineTerminators
          /\ RegExpMatch(re, Tail(s))
  ELSE IF Head(re) = "."
  THEN /\ s # <<>>
       /\ Head(s) \notin LineTerminators
       /\ RegExpMatch(Tail(re), Tail(s))
  ELSE /\ s # <<>>
       /\ Head(s) = Head(re)
       /\ RegExpMatch(Tail(re), Tail(s))

\* wildcardMatch testing the type of the value before the pattern "*"
wildcardMatchTypeFirst(pattern, text) ==
  IF pattern.kind = "undefined" \/ text.kind # "string" THEN FALSE
  ELSE IF pattern.chars = <<"*">> THEN TRUE
  ELSE IF Len(pattern.chars) = 0 THEN Len(text.chars) = 0
  ELSE RegExpMatch(convertPatternToRegExp(toLowerCase(pattern.chars)),
                   toLowerCase(text.chars))

\* wildcardMatch(pattern, text)
wildcardMatch(pattern, text) ==
  IF pattern.kind = "string" /\ pattern.chars = <<"*">> THEN TRUE
  ELSE IF pattern.kind = "undefined" \/ text.kind # "string" THEN FALSE
  ELSE IF Len(pattern.chars) = 0 THEN Len(text.chars) = 0
  ELSE RegExpMatch(convertPatternToRegExp(toLowerCase(pattern.chars)),
                   toLowerCase(text.chars))

\* An attribute map: Object.keys(m) are the first components of m.kv
AttrMap(kv) == [defined |-> TRUE, kv |-> kv]
NoAttrMap == [defined |-> FALSE, kv |-> {}]
Keys(m) == {e[1] : e \in m.kv}
Lookup(m, k) == (CHOOSE e \in m.kv : e[1] = k)[2]

\* attributeMatch satisfied with one matching key
attributeMatchPartial(attributes, ruleAttributes) ==
  IF ~ruleAttributes.defined \/ Cardinality(Keys(ruleAttributes)) = 0 THEN TRUE
  ELSE IF \/ ~attributes.defined
          \/ Cardinality(Keys(attributes)) = 0
          \/ Cardinality(Keys(ruleAttributes)) > Cardinality(Keys(attributes))
  THEN FALSE
  ELSE LET matchedCount ==
             Cardinality({key \in Keys(attributes) :
                            /\ key \in Keys(ruleAttributes)
                            /\ wildcardMatch(Str(Lookup(ruleAttributes, key)),
                                             Lookup(attributes, key))})
       IN  matchedCount >= 1

\* attributes: keys to attribute values; ruleAttributes: keys to patterns
attributeMatch(attributes, ruleAttributes) ==
  IF ~ruleAttributes.defined \/ Cardinality(Keys(ruleAttributes)) = 0 THEN TRUE
  ELSE IF \/ ~attributes.defined
          \/ Cardinality(Keys(attributes)) = 0
          \/ Cardinality(Keys(ruleAttributes)) > Cardinality(Keys(attributes))
  THEN FALSE
  ELSE LET matchedCount ==
             Cardinality({key \in Keys(attributes) :
                            /\ key \in Keys(ruleAttributes)
                            /\ wildcardMatch(Str(Lookup(ruleAttributes, key)),
                                             Lookup(attributes, key))})
       IN  matchedCount = Cardinality(Keys(ruleAttributes))

(***************************************************************************)
(* Sampling rules, targets and requests the model draws from.              *)
(***************************************************************************)
\* JavaScript's < on the rule names of the model (UTF-16 code unit order:
\* the capital D of "Default" sorts before every lower-case letter)
NameOrder == <<"Default", "aux", "test">>
NameIndex(n) == CHOOSE i \in 1..Len(NameOrder) : NameOrder[i] = n
NameLess(a, b) == NameIndex(a) < NameIndex(b)
RuleNames == {NameOrder[i] : i \in 1..Len(NameOrder)}

SamplingRule(name, priority, reservoirSize, fixedRate, serviceName, attrs) ==
  [RuleName |-> name, Priority |-> priority, ReservoirSize |-> reservoirSize,
   FixedRate |-> fixedRate, ServiceName |-> serviceName, Attributes |-> attrs]

\* FixedRate is a percentage (0..100)
RuleCatalog ==
  { SamplingRule("test", 1, 0, 0, <<"*">>, AttrMap({<<"abc", <<"1", "2", "3", "4">> >>})),
    SamplingRule("test", 1, 1, 0, <<"*">>, AttrMap({<<"abc", <<"1", "2", "3", "4">> >>})),
    SamplingRule("aux", 1, 1, 100, <<"s", "?">>, AttrMap({<<"abc", <<"1", "*">> >>})),
    SamplingRule("Default", 2, 1, 5, <<"*">>, AttrMap({})),
    SamplingRule("Default", 1, 0, 0, <<"*">>, AttrMap({<<"abc", <<"z">> >>})) }

\* the resource the sampler was constructed with (its service name)
samplerResource == [serviceName |-> Str(<<"s", "1">>)]

\* the attributes of the requests
RequestAttributes ==
  { AttrMap({<<"abc", Str(<<"1", "2", "3", "4">>)>>}),
    AttrMap({<<"abc", Str(<<"x">>)>>}),
    AttrMap({}) }

\* a trace id, as the percentile its value falls in (0..99)
TraceIds == {3, 50}

\* a context: without a parent span, or with a valid parent span context
Contexts == {"root", "parent_sampled", "parent_not_sampled"}

SamplingTargetDocument(name, fixedRate, quota, ttl, hasInterval, interval) ==
  [RuleName |-> name, FixedRate |-> fixedRate, ReservoirQuota |-> quota,
   ReservoirQuotaTTL |-> ttl, hasInterval |-> hasInterval, Interval |-> interval]

\* ReservoirQuotaTTL is in epoch seconds: 1 is over after the first second,
\* 100000 lies beyond every instant of the model
TargetCatalog ==
  { SamplingTargetDocument("test", 0, 2, 100000, FALSE, 0),
    SamplingTargetDocument("test", 0, 1, 100000, TRUE, 20),
    SamplingTargetDocument("Default", 5, 1, 1, TRUE, 5),
    SamplingTargetDocument("aux", 100, 0, 100000, TRUE, 0) }

\* lastRuleModification of a targets response, in epoch seconds
RuleModificationTimes == {0, 1, 3601}

UniqueNames(S) == \A x \in S : \A y \in S : x.RuleName = y.RuleName => x = y

RECURSIVE SeqsOver(_, _)
\* the sequences without repetition over the set S, up to length n
SeqsOver(S, n) ==
  IF n = 0 THEN {<<>>}
  ELSE LET shorter == SeqsOver(S, n - 1)
       IN  shorter \cup {Append(q, x) : q \in {r \in shorter : Len(r) = n - 1},
                                          x \in S}

Range(q) == {q[i] : i \in 1..Len(q)}

\* the rule lists of a GetSamplingRules response
RuleLists ==
  {q \in SeqsOver(RuleCatalog, MaxRules) :
     /\ Cardinality(Range(q)) = Len(q)
     /\ UniqueNames(Range(q))}

\* the target maps of a GetSamplingTargets response, keyed by RuleName
TargetMaps ==
  {S \in SUBSET TargetCatalog : Cardinality(S) <= MaxTargets /\ UniqueNames(S)}

(***************************************************************************)
(* SamplingRuleApplier, its reservoir and the rate limiter.                *)
(***************************************************************************)
\* SamplingRule.equals: full structural comparison
RuleEquals(r1, r2) == r1 = r2

EmptyStatistics == [RequestCount |-> 0, SampleCount |-> 0, BorrowCount |-> 0]

\* the per-second counter of a RateLimitingSampler: the grants of the current
\* wall-clock second (the clock resets it when the second changes)
NewLimiter == [used |-> 0]

\* new SamplingRuleApplier(rule): no quota known yet, the rule's own fixed rate.
\* isNew tells the instances the last rules or targets update created from
\* those the cache held before it.
NewApplier(rule) ==
  [samplingRule |-> rule, isNew |-> TRUE, hasTarget |-> FALSE,
   quota |-> 0, ttl |-> 0, fixedRate |-> rule.FixedRate,
   limiter |-> NewLimiter, statistics |-> EmptyStatistics]

nowInSeconds(t) == t \div MILLIS_PER_SECOND

\* a limiter that grants one more than its cap
RateLimiterTakeInclusive(limiter, cap) ==
  LET granted == limiter.used <= cap
  IN  [granted |-> granted,
       limiter |-> [used |-> IF granted THEN limiter.used + 1 ELSE limiter.used]]

\* RateLimitingSampler: at most cap grants within one wall-clock second
RateLimiterTake(limiter, cap) ==
  LET granted == limiter.used < cap
  IN  [granted |-> granted,
       limiter |-> [used |-> IF granted THEN limiter.used + 1 ELSE limiter.used]]

\* the second rolls over: the counter starts again
RateLimiterReset(limiter) == [used |-> 0]

\* TraceIdRatioBasedSampler(rate).shouldSample: by the trace id alone
FixedRateDecision(ratePercent, traceId) ==
  IF traceId < ratePercent THEN RECORD_AND_SAMPLED ELSE NOT_RECORD

\* a reservoir that borrows whatever the rule's ReservoirSize is
ReservoirCapAlwaysBorrows(a, t) ==
  IF ~a.hasTarget THEN 1
  ELSE IF t < a.ttl * MILLIS_PER_SECOND THEN a.quota
  ELSE 0

\* whether the reservoir of applier a may be asked at time t, and its cap:
\* before any quota is known it borrows one per second (none when the rule's
\* ReservoirSize is 0), with a quota whose TTL has not passed it grants quota
ReservoirCap(a, t) ==
  IF ~a.hasTarget THEN (IF a.samplingRule.ReservoirSize > 0 THEN 1 ELSE 0)
  ELSE IF t < a.ttl * MILLIS_PER_SECOND THEN a.quota
  ELSE 0

\* SamplingRuleApplier.shouldSample: [decision, applier afterwards]
ApplierShouldSample(a, t, traceId) ==
  LET take == RateLimiterTake(a.limiter, ReservoirCap(a, t))
      decision == IF take.granted THEN RECORD_AND_SAMPLED
                  ELSE FixedRateDecision(a.fixedRate, traceId)
      st == a.statistics
  IN  [decision |-> decision,
       applier |->
         [a EXCEPT !.limiter = take.limiter,
                   !.statistics =
                      [RequestCount |-> st.RequestCount + 1,
                       SampleCount |-> st.SampleCount
                          + (IF decision # NOT_RECORD THEN 1 ELSE 0),
                       BorrowCount |-> st.BorrowCount
                          + (IF take.granted /\ ~a.hasTarget THEN 1 ELSE 0)]]]

\* SamplingRuleApplier.matches(attributes, resource)
ApplierMatches(a, attributes, resource) ==
  /\ attributeMatch(attributes, a.samplingRule.Attributes)
  /\ wildcardMatch(Str(a.samplingRule.ServiceName), resource.serviceName)

\* SamplingRuleApplier.withTarget: a new applier for the same rule, its quota,
\* TTL and fixed rate those of the target, its statistics kept
ApplierWithTarget(a, target) ==
  [a EXCEPT !.isNew = TRUE, !.hasTarget = TRUE,
            !.quota = target.ReservoirQuota,
            !.ttl = target.ReservoirQuotaTTL,
            !.fixedRate = target.FixedRate]

\* SamplingRuleApplier.snapshotStatistics: read and reset
SnapshotStatistics(a) ==
  [statistics |-> a.statistics,
   applier |-> [a EXCEPT !.statistics = EmptyStatistics]]

(***************************************************************************)
(* RuleCache.                                                              *)
(***************************************************************************)
\* isExpired() that takes the cache for expired from the end of its hour on
isExpiredAtTtl(lastUpdated, t) == t >= lastUpdated + RULE_CACHE_TTL_MILLIS

\* isExpired() without the life of the cache
isExpiredNoTtl(lastUpdated, t) == t > lastUpdated

\* isExpired() that takes the life of the cache for a number of seconds
isExpiredInSeconds(lastUpdated, t) ==
  t > lastUpdated + RULE_CACHE_TTL_MILLIS \div MILLIS_PER_SECOND

\* isExpired(): the cache last refreshed at lastUpdated, asked at time t
isExpired(lastUpdated, t) == t > lastUpdated + RULE_CACHE_TTL_MILLIS

RECURSIVE FindIndex(_, _, _, _)
FindIndex(appliers, attributes, resource, i) ==
  IF i > Len(appliers) THEN 0
  ELSE IF \/ ApplierMatches(appliers[i], attributes, resource)
          \/ appliers[i].samplingRule.RuleName = "Default"
       THEN i
       ELSE FindIndex(appliers, attributes, resource, i + 1)

\* getMatchedRule finding only what is both matched and named Default
getMatchedRuleConjoined(appliers, attributes, resource) ==
  LET idx == {i \in 1..Len(appliers) :
                /\ ApplierMatches(appliers[i], attributes, resource)
                /\ appliers[i].samplingRule.RuleName = "Default"}
  IN  IF idx = {} THEN 0 ELSE CHOOSE i \in idx : \A j \in idx : i <= j

\* getMatchedRule with findLast in the place of find
getMatchedRuleLast(appliers, attributes, resource) ==
  LET idx == {i \in 1..Len(appliers) :
                \/ ApplierMatches(appliers[i], attributes, resource)
                \/ appliers[i].samplingRule.RuleName = "Default"}
  IN  IF idx = {} THEN 0 ELSE CHOOSE i \in idx : \A j \in idx : j <= i

\* getMatchedRule(attributes): Array.prototype.find, as the index of the
\* applier found, 0 standing for undefined
getMatchedRule(appliers, attributes, resource) ==
  FindIndex(appliers, attributes, resource, 1)

\* a comparator that leaves rules of equal Priority as they arrived
compareRulesByPriorityOnly(rule1, rule2) ==
  rule1.samplingRule.Priority - rule2.samplingRule.Priority

\* the comparator of sortRulesByPriority
compareRules(rule1, rule2) ==
  IF rule1.samplingRule.Priority = rule2.samplingRule.Priority
  THEN (IF NameLess(rule1.samplingRule.RuleName, rule2.samplingRule.RuleName)
        THEN -1 ELSE 1)
  ELSE rule1.samplingRule.Priority - rule2.samplingRule.Priority

RECURSIVE InsertSorted(_, _)
InsertSorted(sorted, x) ==
  IF sorted = <<>> THEN <<x>>
  ELSE IF compareRules(x, Head(sorted)) < 0 THEN <<x>> \o sorted
       ELSE <<Head(sorted)>> \o InsertSorted(Tail(sorted), x)

RECURSIVE SortFrom(_, _, _)
SortFrom(appliers, i, sorted) ==
  IF i > Len(appliers) THEN sorted
  ELSE SortFrom(appliers, i + 1, InsertSorted(sorted, appliers[i]))

\* sortRulesByPriority(): Array.prototype.sort with compareRules
sortRulesByPriority(appliers) == SortFrom(appliers, 1, <<>>)

\* an oldRuleAppliersMap that was never filled
OldRuleAppliersMapEmpty(appliers, name) == 0

\* oldRuleAppliersMap[name]: the last cached applier of that name
OldRuleAppliersMap(appliers, name) ==
  LET idx == {i \in 1..Len(appliers) : appliers[i].samplingRule.RuleName = name}
  IN  IF idx = {} THEN 0 ELSE CHOOSE i \in idx : \A j \in idx : j <= i

\* the loop of updateRules over newRuleAppliers: a new applier whose rule
\* equals that of the cached applier of its name gives way to it
KeepOldRules(appliers, newRuleAppliers) ==
  [index \in 1..Len(newRuleAppliers) |->
     LET newRule == newRuleAppliers[index]
         old == OldRuleAppliersMap(appliers, newRule.samplingRule.RuleName)
     IN  IF old # 0 /\ RuleEquals(newRule.samplingRule, appliers[old].samplingRule)
         THEN appliers[old]
         ELSE newRule]

\* updateRules without the call of sortRulesByPriority
updateRulesWithoutSort(appliers, newRuleAppliers) ==
  KeepOldRules(appliers, newRuleAppliers)

\* updateRules adding the new appliers to the cached ones
updateRulesAppend(appliers, newRuleAppliers) ==
  sortRulesByPriority(appliers \o newRuleAppliers)

\* updateRules without the substitution of the old appliers
updateRulesAdoptAll(appliers, newRuleAppliers) == sortRulesByPriority(newRuleAppliers)

\* updateRules(newRuleAppliers): the appliers of the cache afterwards
updateRules(appliers, newRuleAppliers) ==
  sortRulesByPriority(KeepOldRules(appliers, newRuleAppliers))

\* targetDocuments[name]: the targets of that name (one at most)
TargetsFor(targetDocuments, name) == {t \in targetDocuments : t.RuleName = name}

\* a loop that keeps the first Interval it sees
FirstPollingInterval(appliers, targetDocuments, index, min) ==
  LET withInterval ==
        {i \in 1..Len(appliers) :
           \E t \in TargetsFor(targetDocuments, appliers[i].samplingRule.RuleName) :
             t.hasInterval /\ t.Interval # 0}
      first == CHOOSE i \in withInterval : \A j \in withInterval : i <= j
      target == CHOOSE t \in TargetsFor(targetDocuments,
                                        appliers[first].samplingRule.RuleName) : TRUE
  IN  IF withInterval = {} THEN min
      ELSE [defined |-> TRUE, value |-> target.Interval]

\* the minimum that updateTargets' loop over the appliers leaves in
\* minPollingInteral: a record [defined, value]
RECURSIVE MinPollingInterval(_, _, _, _)
MinPollingInterval(appliers, targetDocuments, index, min) ==
  IF index > Len(appliers) THEN min
  ELSE LET found == TargetsFor(targetDocuments, appliers[index].samplingRule.RuleName)
           target == CHOOSE t \in found : TRUE
           next == IF /\ found # {}
                      /\ target.hasInterval /\ target.Interval # 0
                      /\ (~min.defined \/ min.value > target.Interval)
                   THEN [defined |-> TRUE, value |-> target.Interval]
                   ELSE min
       IN  MinPollingInterval(appliers, targetDocuments, index + 1, next)

\* updateTargets comparing the seconds of lastRuleModification with the
\* milliseconds of the cache
updateTargetsUnscaled(appliers, lastUpdated, targetDocuments, lastRuleModification) ==
  LET swapped ==
        [index \in 1..Len(appliers) |->
           LET found == TargetsFor(targetDocuments, appliers[index].samplingRule.RuleName)
           IN  IF found # {}
               THEN ApplierWithTarget(appliers[index], CHOOSE t \in found : TRUE)
               ELSE appliers[index]]
      min == MinPollingInterval(appliers, targetDocuments, 1,
                                [defined |-> FALSE, value |-> 0])
  IN  [appliers |-> swapped,
       refreshSamplingRules |-> lastRuleModification > lastUpdated,
       nextPollingInterval |->
         IF min.defined /\ min.value # 0 THEN min.value
         ELSE DEFAULT_TARGET_POLLING_INTERVAL_SECONDS]

\* updateTargets without the test of target: an applier no target names is
\* replaced as well, by a new applier without a quota
updateTargetsWithoutTargetTest(appliers, lastUpdated, targetDocuments, lastRuleModification) ==
  LET swapped ==
        [index \in 1..Len(appliers) |->
           LET found == TargetsFor(targetDocuments, appliers[index].samplingRule.RuleName)
           IN  IF found # {}
               THEN ApplierWithTarget(appliers[index], CHOOSE t \in found : TRUE)
               ELSE [appliers[index] EXCEPT !.isNew = TRUE, !.hasTarget = FALSE]]
      min == MinPollingInterval(appliers, targetDocuments, 1,
                                [defined |-> FALSE, value |-> 0])
  IN  [appliers |-> swapped,
       refreshSamplingRules |-> lastRuleModification * MILLIS_PER_SECOND > lastUpdated,
       nextPollingInterval |->
         IF min.defined /\ min.value # 0 THEN min.value
         ELSE DEFAULT_TARGET_POLLING_INTERVAL_SECONDS]

\* updateTargets asking for a refresh also when the rules were last modified at
\* the very time of the last refresh
updateTargetsRefreshAtEqual(appliers, lastUpdated, targetDocuments, lastRuleModification) ==
  LET swapped ==
        [index \in 1..Len(appliers) |->
           LET found == TargetsFor(targetDocuments, appliers[index].samplingRule.RuleName)
           IN  IF found # {}
               THEN ApplierWithTarget(appliers[index], CHOOSE t \in found : TRUE)
               ELSE appliers[index]]
      min == MinPollingInterval(appliers, targetDocuments, 1,
                                [defined |-> FALSE, value |-> 0])
  IN  [appliers |-> swapped,
       refreshSamplingRules |-> lastRuleModification * MILLIS_PER_SECOND >= lastUpdated,
       nextPollingInterval |->
         IF min.defined /\ min.value # 0 THEN min.value
         ELSE DEFAULT_TARGET_POLLING_INTERVAL_SECONDS]

\* updateTargets(targetDocuments, lastRuleModification):
\* [the appliers afterwards, refreshSamplingRules, nextPollingInterval]
updateTargets(appliers, lastUpdated, targetDocuments, lastRuleModification) ==
  LET swapped ==
        [index \in 1..Len(appliers) |->
           LET found == TargetsFor(targetDocuments, appliers[index].samplingRule.RuleName)
           IN  IF found # {}
               THEN ApplierWithTarget(appliers[index], CHOOSE t \in found : TRUE)
               ELSE appliers[index]]
      min == MinPollingInterval(appliers, targetDocuments, 1,
                                [defined |-> FALSE, value |-> 0])
  IN  [appliers |-> swapped,
       refreshSamplingRules |-> lastRuleModification * MILLIS_PER_SECOND > lastUpdated,
       nextPollingInterval |->
         IF min.defined /\ min.value # 0 THEN min.value
         ELSE DEFAULT_TARGET_POLLING_INTERVAL_SECONDS]

\* createSamplingStatisticsDocuments stamping its documents with Date.now()
createSamplingStatisticsDocumentsInMillis(appliers, t) ==
  [documents |->
     [i \in 1..Len(appliers) |->
        [RuleName |-> appliers[i].samplingRule.RuleName,
         Timestamp |-> t,
         RequestCount |-> appliers[i].statistics.RequestCount,
         BorrowCount |-> appliers[i].statistics.BorrowCount,
         SampledCount |-> appliers[i].statistics.SampleCount]],
   appliers |-> [i \in 1..Len(appliers) |-> SnapshotStatistics(appliers[i]).applier]]

\* createSamplingStatisticsDocuments reading the statistics without resetting
\* them
createSamplingStatisticsDocumentsWithoutReset(appliers, t) ==
  [documents |->
     [i \in 1..Len(appliers) |->
        [RuleName |-> appliers[i].samplingRule.RuleName,
         Timestamp |-> nowInSeconds(t),
         RequestCount |-> appliers[i].statistics.RequestCount,
         BorrowCount |-> appliers[i].statistics.BorrowCount,
         SampledCount |-> appliers[i].statistics.SampleCount]],
   appliers |-> appliers]

\* createSamplingStatisticsDocuments(clientId): [the documents, the appliers afterwards]
createSamplingStatisticsDocuments(appliers, t) ==
  [documents |->
     [i \in 1..Len(appliers) |->
        [RuleName |-> appliers[i].samplingRule.RuleName,
         Timestamp |-> nowInSeconds(t),
         RequestCount |-> appliers[i].statistics.RequestCount,
         BorrowCount |-> appliers[i].statistics.BorrowCount,
         SampledCount |-> appliers[i].statistics.SampleCount]],
   appliers |-> [i \in 1..Len(appliers) |-> SnapshotStatistics(appliers[i]).applier]]

(***************************************************************************)
(* FallbackSampler and the remote sampler around the cache.                *)
(***************************************************************************)
\* RateLimitingSampler.shouldSample: [decision, the limiter afterwards]
RateLimitingShouldSample(limiter, cap) ==
  LET take == RateLimiterTake(limiter, cap)
  IN  [decision |-> IF take.granted THEN RECORD_AND_SAMPLED ELSE NOT_RECORD,
       limiter |-> take.limiter]

\* a FallbackSampler that returns what its rate limiter says
FallbackShouldSampleLimiterOnly(limiter, t, traceId) ==
  RateLimitingShouldSample(limiter, FALLBACK_RATE_LIMIT)

\* FallbackSampler.shouldSample: [decision, the rate limiter afterwards]
FallbackShouldSample(limiter, t, traceId) ==
  LET samplingResult == RateLimitingShouldSample(limiter, FALLBACK_RATE_LIMIT)
  IN  IF samplingResult.decision # NOT_RECORD
      THEN samplingResult
      ELSE [decision |-> FixedRateDecision(FALLBACK_FIXED_RATE_PERCENT, traceId),
            limiter |-> samplingResult.limiter]

\* _AwsXRayRemoteSampler.shouldSample: the fallback sampler when the cache is
\* expired or no rule matches, the matched applier otherwise
RemoteShouldSample(appliers, lastUpdated, limiter, t, traceId, attributes) ==
  LET matched == getMatchedRule(appliers, attributes, samplerResource)
  IN  IF isExpired(lastUpdated, t) \/ matched = 0
      THEN LET r == FallbackShouldSample(limiter, t, traceId)
           IN  [decision |-> r.decision, via |-> "fallback", matched |-> 0,
                appliers |-> appliers, limiter |-> r.limiter]
      ELSE LET r == ApplierShouldSample(appliers[matched], t, traceId)
           IN  [decision |-> r.decision, via |-> "rule", matched |-> matched,
                appliers |-> [appliers EXCEPT ![matched] = r.applier],
                limiter |-> limiter]

\* AwsXRayRemoteSampler.shouldSample: ParentBased around the remote sampler,
\* a sampled parent answered by AlwaysOn, an unsampled one by AlwaysOff
ParentBasedShouldSample(ctx, appliers, lastUpdated, limiter, t, traceId, attributes) ==
  IF ctx = "root"
  THEN RemoteShouldSample(appliers, lastUpdated, limiter, t, traceId, attributes)
  ELSE [decision |-> IF ctx = "parent_sampled" THEN RECORD_AND_SAMPLED ELSE NOT_RECORD,
        via |-> "parent", matched |-> 0, appliers |-> appliers, limiter |-> limiter]

(***************************************************************************)
(* BunyanInstrumentation: the patched Logger.prototype._emit.              *)
(*                                                                         *)
(* A log record is a function from its keys to strings.  The arguments of  *)
(* _emit are the record and the flag noemit; the record is one object,     *)
(* which patchedEmit writes to in place, so a call of the original _emit   *)
(* is told by the arguments it is handed and the record is told by its     *)
(* content when the original is called.                                    *)
(***************************************************************************)
\* const DEFAULT_CONFIG
DEFAULT_CONFIG == [disableLogSending |-> FALSE, disableLogCorrelation |-> FALSE]

INVALID_TRACEID == "00000000000000000000000000000000"
INVALID_SPANID == "0000000000000000"

\* trace.getSpan(context.active()) when the active context holds no span
NoSpan == [traceId |-> "", spanId |-> "", traceFlags |-> 0, none |-> TRUE]

SpanOf(traceId, spanId, traceFlags) ==
  [traceId |-> traceId, spanId |-> spanId, traceFlags |-> traceFlags, none |-> FALSE]

\* isSpanContextValid(spanContext): a trace id and a span id that are not all
\* zeros
isSpanContextValid(spanContext) ==
  spanContext.traceId # INVALID_TRACEID /\ spanContext.spanId # INVALID_SPANID

HexDigits == <<"0", "1", "2", "3", "4", "5", "6", "7", "8", "9", "a", "b", "c", "d", "e", "f">>

\* Number.prototype.toString(16), as a sequence of digits
RECURSIVE toString16(_)
toString16(n) ==
  IF n < 16 THEN <<HexDigits[n + 1]>>
  ELSE Append(toString16(n \div 16), HexDigits[(n % 16) + 1])

\* `0${spanContext.traceFlags.toString(16)}`
TraceFlagsString(traceFlags) == <<"0">> \o toString16(traceFlags)

\* record[key] = value
Put(record, key, value) ==
  [k \in DOMAIN record \cup {key} |-> IF k = key THEN value ELSE record[k]]

\* the logHook of the configuration called with (span, record): the record
\* afterwards and whether the hook threw
LogHook(logHook, span, record) ==
  CASE logHook = "returns" -> [record |-> record, threw |-> FALSE]
    [] logHook = "adds" ->
         [record |-> Put(record, "resource.service.name", <<"s">>), threw |-> FALSE]
    [] logHook = "throws" -> [record |-> record, threw |-> TRUE]
    [] logHook = "adds and throws" ->
         [record |-> Put(record, "resource.service.name", <<"s">>), threw |-> TRUE]

\* safeExecuteInTheMiddle(execute, onFinish, preventThrowingError): the error
\* goes to onFinish, and is thrown again unless preventThrowingError
safeExecuteInTheMiddle(executed, preventThrowingError) ==
  [record |-> executed.record,
   diagErrors |-> IF executed.threw THEN 1 ELSE 0,
   thrown |-> executed.threw /\ ~preventThrowingError]

\* _callHook calling the hook outside safeExecuteInTheMiddle
callHookUnguarded(logHook, span, record) ==
  LET executed == LogHook(logHook, span, record)
  IN  IF logHook = "undefined"
      THEN [record |-> record, diagErrors |-> 0, thrown |-> FALSE]
      ELSE [record |-> executed.record, diagErrors |-> 0, thrown |-> executed.threw]

\* _callHook(span, record)
callHook(logHook, span, record) ==
  IF logHook = "undefined"
  THEN [record |-> record, diagErrors |-> 0, thrown |-> FALSE]
  ELSE safeExecuteInTheMiddle(LogHook(logHook, span, record), TRUE)

\* patchedEmit(...args) of an instrumentation that isEnabled() or not, under
\* this configuration and with this span active: the calls of the original
\* _emit with their arguments, the record as the original finds it, the
\* errors written to the diagnostics and whether patchedEmit threw
patchedEmit(enabled, config, span, args, record) ==
  LET plain == [originalCalls |-> <<args>>, record |-> record,
                diagErrors |-> 0, thrown |-> FALSE, hookCalls |-> 0]
      correlated ==
        Put(Put(Put(record, "trace_id", span.traceId), "span_id", span.spanId),
            "trace_flags", TraceFlagsString(span.traceFlags))
      hooked == callHook(config.logHook, span, correlated)
  IN  IF ~enabled \/ config.disableLogCorrelation THEN plain
      ELSE IF span.none THEN plain
      ELSE IF ~isSpanContextValid(span) THEN plain
      ELSE [originalCalls |-> IF hooked.thrown THEN <<>> ELSE <<args>>,
            record |-> hooked.record,
            diagErrors |-> hooked.diagErrors,
            thrown |-> hooked.thrown,
            hookCalls |-> IF config.logHook = "undefined" THEN 0 ELSE 1]

\* no call of _emit
NoEmit ==
  [enabled |-> TRUE, config |-> DEFAULT_CONFIG, span |-> NoSpan, args |-> <<>>,
   record |-> <<>>, originalCalls |-> <<>>, diagErrors |-> 0, thrown |-> FALSE,
   hookCalls |-> 0]

(***************************************************************************)
(* The state of one sampler and its operations.                            *)
(***************************************************************************)
VARIABLES
  now,                    \* Date.now()
  ruleAppliers,           \* RuleCache.ruleAppliers
  lastUpdatedEpochMillis, \* RuleCache.lastUpdatedEpochMillis
  fallbackLimiter,        \* the RateLimitingSampler of the FallbackSampler
  window,                 \* per rule name: the decisions of the current second
  ticks,                  \* how often the clock has moved
  pollers,                \* the requests of the two pollers that are in flight
  tasks,                  \* the calls of the cache that have begun and not returned
  ret                     \* the last operation: its arguments and what it returned

vars ==
  <<now, ruleAppliers, lastUpdatedEpochMillis, fallbackLimiter, window, ticks, pollers,
    tasks, ret>>

NoRet ==
  [op |-> "new", sampler |-> "", ctx |-> "", traceId |-> 0, attributes |-> NoAttrMap,
   decision |-> "", via |-> "", matched |-> 0,
   rules |-> {}, targets |-> {}, lastRuleModification |-> 0,
   refreshSamplingRules |-> FALSE, nextPollingInterval |-> 0, documents |-> <<>>,
   expired |-> FALSE, pattern |-> Undefined, text |-> Undefined,
   ruleAttributes |-> NoAttrMap, result |-> FALSE, emit |-> NoEmit]

\* the decisions taken for one rule within the current second: how many
\* requests, how many of them recorded, and the quota all of them were decided
\* under (-1 when they were not all decided under one unexpired quota at fixed
\* rate 0)
NoWindow == [requests |-> 0, recorded |-> 0, quota |-> -1]

\* the pollers of a new sampler: no rules request and no targets request in
\* flight, no rules request answered yet, and the rules poller set to fire
\* at once and then every rulePollingIntervalMillis
NoPollers ==
  [rules |-> 0, targets |-> FALSE, lastRules |-> "none",
   rulePoller |-> TRUE,
   rulePollingIntervalMillis |-> DEFAULT_RULES_POLLING_INTERVAL_SECONDS * MILLIS_PER_SECOND,
   nextRulesPoll |-> 0]

\* the rules poller after its timer fired at time t: a rules request is in
\* flight, unless one was already, and the timer is set again to fire an
\* interval after this firing
RulesFetchStarted(p, t) ==
  [p EXCEPT !.rules = IF @ = 0 THEN 1 ELSE @,
            !.nextRulesPoll = t + p.rulePollingIntervalMillis]

\* a failure that doubles the interval of the rules poller
RulesFetchDoneWithBackoff(p, outcome) ==
  [p EXCEPT !.rules = @ - 1, !.lastRules = outcome,
            !.rulePollingIntervalMillis = IF outcome = "failure" THEN 2 * @ ELSE @]

\* the rules poller after a rules request was answered with this outcome
RulesFetchDone(p, outcome) ==
  [p EXCEPT !.rules = @ - 1, !.lastRules = outcome]

\* no call of getMatchedRule under way
NoScan ==
  [active |-> FALSE, attributes |-> NoAttrMap, index |-> 0, seen |-> <<>>, before |-> <<>>]

\* no call of updateRules or updateTargets under way
NoWrite == [op |-> "none", index |-> 0, targets |-> {}, lastRuleModification |-> 0]

NoTasks == [scan |-> NoScan, write |-> NoWrite]

\* new RuleCache(samplerResource), new FallbackSampler()
Init ==
  /\ now = 0
  /\ ruleAppliers = <<>>
  /\ lastUpdatedEpochMillis = 0
  /\ fallbackLimiter = NewLimiter
  /\ window = [n \in RuleNames |-> NoWindow]
  /\ ticks = 0
  /\ pollers = NoPollers
  /\ tasks = NoTasks
  /\ ret = NoRet

\* the appliers the cache holds, as an update finds them
Existing(appliers) == [i \in 1..Len(appliers) |-> [appliers[i] EXCEPT !.isNew = FALSE]]

\* the requests the appliers have counted since the last report
RECURSIVE TotalRequestCount(_)
TotalRequestCount(appliers) ==
  IF appliers = <<>> THEN 0
  ELSE Head(appliers).statistics.RequestCount + TotalRequestCount(Tail(appliers))

\* the requests the rules named in S have decided within the current second
RECURSIVE TotalWindowRequests(_)
TotalWindowRequests(S) ==
  IF S = {} THEN 0
  ELSE LET n == CHOOSE m \in S : TRUE
       IN  window[n].requests + TotalWindowRequests(S \ {n})

\* the clock moves on; when it enters another second, the per-second counters
\* start again
Tick(steps) ==
  /\ ticks < MaxTicks
  /\ \E d \in steps :
       /\ now' = now + d
       /\ IF nowInSeconds(now + d) # nowInSeconds(now)
          THEN /\ ruleAppliers' =
                    [i \in 1..Len(ruleAppliers) |->
                       [ruleAppliers[i] EXCEPT
                          !.limiter = RateLimiterReset(ruleAppliers[i].limiter)]]
               /\ fallbackLimiter' = RateLimiterReset(fallbackLimiter)
               /\ window' = [n \in RuleNames |-> NoWindow]
          ELSE UNCHANGED <<ruleAppliers, fallbackLimiter, window>>
  /\ ticks' = ticks + 1
  /\ ret' = [NoRet EXCEPT !.op = "tick"]
  /\ UNCHANGED <<tasks, pollers, lastUpdatedEpochMillis>>

\* a rules response arrives: one new applier per rule, then updateRules
UpdateRules(lists) ==
  /\ \E rules \in lists :
       LET newRuleAppliers == [i \in 1..Len(rules) |-> NewApplier(rules[i])]
           after == updateRules(Existing(ruleAppliers), newRuleAppliers)
           kept == {after[i].samplingRule.RuleName :
                      i \in {j \in 1..Len(after) : ~after[j].isNew}}
       IN  /\ ruleAppliers' = after
           /\ lastUpdatedEpochMillis' = now
           /\ window' = [n \in RuleNames |-> IF n \in kept THEN window[n] ELSE NoWindow]
           /\ ret' = [NoRet EXCEPT !.op = "updateRules", !.rules = Range(rules)]
  /\ UNCHANGED <<tasks, pollers, now, ticks, fallbackLimiter>>

\* a targets response arrives: updateTargets
UpdateTargets(maps, times) ==
  /\ \E targetDocuments \in maps, lastRuleModification \in times :
       LET r == updateTargets(Existing(ruleAppliers), lastUpdatedEpochMillis,
                              targetDocuments, lastRuleModification)
       IN  /\ ruleAppliers' = r.appliers
           /\ ret' = [NoRet EXCEPT !.op = "updateTargets",
                                   !.targets = targetDocuments,
                                   !.lastRuleModification = lastRuleModification,
                                   !.refreshSamplingRules = r.refreshSamplingRules,
                                   !.nextPollingInterval = r.nextPollingInterval]
  /\ UNCHANGED <<tasks, pollers, now, ticks, lastUpdatedEpochMillis, fallbackLimiter, window>>

\* the statistics of the appliers are reported
CreateSamplingStatisticsDocuments ==
  /\ LET r == createSamplingStatisticsDocuments(ruleAppliers, now)
     IN  /\ ruleAppliers' = r.appliers
         /\ ret' = [NoRet EXCEPT !.op = "createSamplingStatisticsDocuments",
                                 !.documents = r.documents]
  /\ UNCHANGED <<tasks, pollers, now, ticks, lastUpdatedEpochMillis, fallbackLimiter, window>>

\* the window of a rule after one more decision of applier a (as it was before
\* the decision) at time t
WindowAfter(w, a, t, decision) ==
  LET stable == a.hasTarget /\ t < a.ttl * MILLIS_PER_SECOND /\ a.fixedRate = 0
      rec == IF decision # NOT_RECORD THEN 1 ELSE 0
  IN  [requests |-> w.requests + 1, recorded |-> w.recorded + rec,
       quota |-> IF stable /\ (w.requests = 0 \/ w.quota = a.quota)
                 THEN a.quota ELSE -1]

\* one sampling decision, asked of the parent-based sampler or of the
\* remote sampler itself
ShouldSample(samplers, contexts, traceIds, requests) ==
  /\ \E sampler \in samplers, ctx \in contexts,
        traceId \in traceIds, attributes \in requests :
       LET r == IF sampler = "AwsXRayRemoteSampler"
                THEN ParentBasedShouldSample(ctx, ruleAppliers, lastUpdatedEpochMillis,
                                             fallbackLimiter, now, traceId, attributes)
                ELSE RemoteShouldSample(ruleAppliers, lastUpdatedEpochMillis,
                                        fallbackLimiter, now, traceId, attributes)
           name == ruleAppliers[r.matched].samplingRule.RuleName
       IN  /\ r.matched # 0 =>
                /\ TotalRequestCount(ruleAppliers) < MaxCount
                /\ TotalWindowRequests(RuleNames) < MaxPerSecond
           /\ ruleAppliers' = r.appliers
           /\ fallbackLimiter' = r.limiter
           /\ window' = IF r.matched = 0 THEN window
                        ELSE [window EXCEPT ![name] =
                                WindowAfter(window[name], ruleAppliers[r.matched],
                                            now, r.decision)]
           /\ ret' = [NoRet EXCEPT !.op = "shouldSample", !.sampler = sampler,
                                   !.ctx = ctx, !.traceId = traceId,
                                   !.attributes = attributes, !.decision = r.decision,
                                   !.via = r.via, !.matched = r.matched]
  /\ UNCHANGED <<tasks, pollers, now, ticks, lastUpdatedEpochMillis>>

\* a lookup in the cache: getMatchedRule(attributes)
GetMatchedRule(requests) ==
  /\ \E attributes \in requests :
       ret' = [NoRet EXCEPT !.op = "getMatchedRule", !.attributes = attributes,
                            !.matched = getMatchedRule(ruleAppliers, attributes,
                                                       samplerResource)]
  /\ UNCHANGED <<tasks, pollers, now, ticks, ruleAppliers, lastUpdatedEpochMillis, fallbackLimiter, window>>

\* the cache is asked whether it is expired: isExpired()
IsExpired ==
  /\ ret' = [NoRet EXCEPT !.op = "isExpired",
                          !.expired = isExpired(lastUpdatedEpochMillis, now)]
  /\ UNCHANGED <<tasks, pollers, now, ticks, ruleAppliers, lastUpdatedEpochMillis, fallbackLimiter, window>>

\* the timer of the rules poller fires: getAndUpdateSamplingRules sends a rules
\* request, unless the request of an earlier tick is still in flight
RulePollerTick ==
  /\ pollers.rulePoller
  /\ now >= pollers.nextRulesPoll
  /\ pollers' = RulesFetchStarted(pollers, now)
  /\ ret' = [NoRet EXCEPT !.op = "rulePollerTick"]
  /\ UNCHANGED <<tasks, now, ticks, ruleAppliers, lastUpdatedEpochMillis, fallbackLimiter, window>>

\* a rules request is answered: one new applier per rule, then updateRules
RulesFetchSucceeds(lists) ==
  /\ pollers.rules > 0
  /\ \E rules \in lists :
       LET newRuleAppliers == [i \in 1..Len(rules) |-> NewApplier(rules[i])]
           after == updateRules(Existing(ruleAppliers), newRuleAppliers)
           kept == {after[i].samplingRule.RuleName :
                      i \in {j \in 1..Len(after) : ~after[j].isNew}}
       IN  /\ ruleAppliers' = after
           /\ lastUpdatedEpochMillis' = now
           /\ window' = [n \in RuleNames |-> IF n \in kept THEN window[n] ELSE NoWindow]
           /\ ret' = [NoRet EXCEPT !.op = "updateRules", !.rules = Range(rules)]
  /\ pollers' = RulesFetchDone(pollers, "success")
  /\ UNCHANGED <<tasks, now, ticks, fallbackLimiter>>

\* a rules request fails: the error is logged and the cache is not called
RulesFetchFails ==
  /\ pollers.rules > 0
  /\ pollers' = RulesFetchDone(pollers, "failure")
  /\ ret' = [NoRet EXCEPT !.op = "rulesFetchFailed"]
  /\ UNCHANGED <<tasks, now, ticks, ruleAppliers, lastUpdatedEpochMillis, fallbackLimiter, window>>

\* the timer of the targets poller fires: getAndUpdateSamplingTargets reports
\* the statistics of the appliers in a targets request, unless the request of
\* an earlier tick is still in flight
TargetPollerTick ==
  /\ IF pollers.targets
     THEN /\ ret' = [NoRet EXCEPT !.op = "getAndUpdateSamplingTargets"]
          /\ UNCHANGED <<ruleAppliers, pollers>>
     ELSE LET r == createSamplingStatisticsDocuments(ruleAppliers, now)
          IN  /\ ruleAppliers' = r.appliers
              /\ pollers' = [pollers EXCEPT !.targets = TRUE]
              /\ ret' = [NoRet EXCEPT !.op = "getAndUpdateSamplingTargets",
                                      !.documents = r.documents]
  /\ UNCHANGED <<tasks, now, ticks, lastUpdatedEpochMillis, fallbackLimiter, window>>

\* the targets request is answered: updateTargets, and when it asks for the
\* rules to be refreshed, getAndUpdateSamplingRules sends a rules request
TargetsFetchSucceeds(maps, times) ==
  /\ pollers.targets
  /\ \E targetDocuments \in maps, lastRuleModification \in times :
       LET r == updateTargets(Existing(ruleAppliers), lastUpdatedEpochMillis,
                              targetDocuments, lastRuleModification)
       IN  /\ r.refreshSamplingRules => pollers.rules < MaxInFlight
           /\ ruleAppliers' = r.appliers
           /\ pollers' = [pollers EXCEPT
                            !.targets = FALSE,
                            !.rules = IF r.refreshSamplingRules THEN @ + 1 ELSE @]
           /\ ret' = [NoRet EXCEPT !.op = "updateTargets",
                                   !.targets = targetDocuments,
                                   !.lastRuleModification = lastRuleModification,
                                   !.refreshSamplingRules = r.refreshSamplingRules,
                                   !.nextPollingInterval = r.nextPollingInterval]
  /\ UNCHANGED <<tasks, now, ticks, lastUpdatedEpochMillis, fallbackLimiter, window>>

\* the targets request fails: the error is logged and the cache is not called
TargetsFetchFails ==
  /\ pollers.targets
  /\ pollers' = [pollers EXCEPT !.targets = FALSE]
  /\ ret' = [NoRet EXCEPT !.op = "targetsFetchFailed"]
  /\ UNCHANGED <<tasks, now, ticks, ruleAppliers, lastUpdatedEpochMillis, fallbackLimiter, window>>

\* getMatchedRule that gives up the thread between two appliers, as a scan
\* with an awaited predicate would
getMatchedRuleAwaits == FALSE

\* getMatchedRule runs from its call to its return without giving up the
\* thread: Array.prototype.find with a synchronous predicate
getMatchedRuleIsSynchronous == TRUE

\* a call of updateRules or updateTargets may begin: none of them is under
\* way, and no scan is, unless scans give up the thread
WriterMayBegin ==
  /\ tasks.write.op = "none"
  /\ tasks.scan.active => ~getMatchedRuleIsSynchronous

\* getMatchedRule(attributes) is called
GetMatchedRuleBegin(requests) ==
  /\ ~tasks.scan.active
  /\ tasks.write.op = "none"
  /\ \E attributes \in requests :
       tasks' = [tasks EXCEPT !.scan = [active |-> TRUE, attributes |-> attributes,
                                        index |-> 1, seen |-> <<>>,
                                        before |-> ruleAppliers]]
  /\ ret' = [NoRet EXCEPT !.op = "getMatchedRule begins"]
  /\ UNCHANGED <<pollers, now, ticks, ruleAppliers, lastUpdatedEpochMillis,
                 fallbackLimiter, window>>

\* find looks at the next applier of this.ruleAppliers, and returns with it
\* when its rule matches or is named Default, or with none after the last
GetMatchedRuleStep ==
  /\ tasks.scan.active
  /\ tasks.write.op = "none"
  /\ LET scan == tasks.scan
         index == scan.index
         ended == index > Len(ruleAppliers)
         found == /\ ~ended
                  /\ \/ ApplierMatches(ruleAppliers[index], scan.attributes,
                                        samplerResource)
                     \/ ruleAppliers[index].samplingRule.RuleName = "Default"
     IN  IF ended \/ found
         THEN /\ tasks' = [tasks EXCEPT !.scan = NoScan]
              /\ ret' = [NoRet EXCEPT !.op = "getMatchedRule",
                                      !.attributes = scan.attributes,
                                      !.matched = IF found THEN index ELSE 0]
         ELSE /\ tasks' = [tasks EXCEPT
                             !.scan.index = index + 1,
                             !.scan.seen = Append(scan.seen, ruleAppliers[index])]
              /\ ret' = [NoRet EXCEPT !.op = "getMatchedRule looks"]
  /\ UNCHANGED <<pollers, now, ticks, ruleAppliers, lastUpdatedEpochMillis,
                 fallbackLimiter, window>>

\* updateRules(newRuleAppliers) up to this.ruleAppliers = newRuleAppliers: the
\* cache holds the new list, not yet sorted
UpdateRulesBegin(lists) ==
  /\ WriterMayBegin
  /\ \E rules \in lists :
       LET newRuleAppliers == [i \in 1..Len(rules) |-> NewApplier(rules[i])]
           after == KeepOldRules(Existing(ruleAppliers), newRuleAppliers)
           kept == {after[i].samplingRule.RuleName :
                      i \in {j \in 1..Len(after) : ~after[j].isNew}}
       IN  /\ ruleAppliers' = after
           /\ window' = [n \in RuleNames |-> IF n \in kept THEN window[n] ELSE NoWindow]
           /\ ret' = [NoRet EXCEPT !.op = "updateRules begins", !.rules = Range(rules)]
  /\ tasks' = [tasks EXCEPT !.write = [NoWrite EXCEPT !.op = "updateRules"]]
  /\ UNCHANGED <<pollers, now, ticks, lastUpdatedEpochMillis, fallbackLimiter>>

\* the rest of updateRules: sortRulesByPriority(), then
\* lastUpdatedEpochMillis = Date.now()
UpdateRulesEnd ==
  /\ tasks.write.op = "updateRules"
  /\ ruleAppliers' = sortRulesByPriority(ruleAppliers)
  /\ lastUpdatedEpochMillis' = now
  /\ tasks' = [tasks EXCEPT !.write = NoWrite]
  /\ ret' = [NoRet EXCEPT !.op = "updateRules"]
  /\ UNCHANGED <<pollers, now, ticks, fallbackLimiter, window>>

\* updateTargets(targetDocuments, lastRuleModification) is called
UpdateTargetsBegin(maps, times) ==
  /\ WriterMayBegin
  /\ \E targetDocuments \in maps, lastRuleModification \in times :
       tasks' = [tasks EXCEPT !.write = [op |-> "updateTargets", index |-> 1,
                                         targets |-> targetDocuments,
                                         lastRuleModification |-> lastRuleModification]]
  /\ ruleAppliers' = Existing(ruleAppliers)
  /\ ret' = [NoRet EXCEPT !.op = "updateTargets begins"]
  /\ UNCHANGED <<pollers, now, ticks, lastUpdatedEpochMillis, fallbackLimiter, window>>

\* the loop of updateTargets reaches the next applier and puts
\* rule.withTarget(target) in its place when there is a target of its name;
\* after the last applier updateTargets returns
UpdateTargetsStep ==
  /\ tasks.write.op = "updateTargets"
  /\ LET write == tasks.write
         index == write.index
         found == TargetsFor(write.targets, ruleAppliers[index].samplingRule.RuleName)
         min == MinPollingInterval(ruleAppliers, write.targets, 1,
                                   [defined |-> FALSE, value |-> 0])
     IN  IF index <= Len(ruleAppliers)
         THEN /\ ruleAppliers' =
                   IF found # {}
                   THEN [ruleAppliers EXCEPT
                           ![index] = ApplierWithTarget(@, CHOOSE t \in found : TRUE)]
                   ELSE ruleAppliers
              /\ tasks' = [tasks EXCEPT !.write.index = index + 1]
              /\ ret' = [NoRet EXCEPT !.op = "updateTargets loops"]
         ELSE /\ ruleAppliers' = ruleAppliers
              /\ tasks' = [tasks EXCEPT !.write = NoWrite]
              /\ ret' = [NoRet EXCEPT
                           !.op = "updateTargets",
                           !.targets = write.targets,
                           !.lastRuleModification = write.lastRuleModification,
                           !.refreshSamplingRules =
                             write.lastRuleModification * MILLIS_PER_SECOND
                               > lastUpdatedEpochMillis,
                           !.nextPollingInterval =
                             IF min.defined /\ min.value # 0 THEN min.value
                             ELSE DEFAULT_TARGET_POLLING_INTERVAL_SECONDS]
  /\ UNCHANGED <<pollers, now, ticks, lastUpdatedEpochMillis, fallbackLimiter, window>>

Samplers == {"AwsXRayRemoteSampler", "_AwsXRayRemoteSampler"}

RuleNamed(name, priority, reservoirSize) ==
  CHOOSE r \in RuleCatalog :
    r.RuleName = name /\ r.Priority = priority /\ r.ReservoirSize = reservoirSize

TargetNamed(name, quota) ==
  CHOOSE t \in TargetCatalog : t.RuleName = name /\ t.ReservoirQuota = quota

\* the rule "test" of the tests (ReservoirSize 0, FixedRate 0) and the Default
\* rule behind it
SamplingRuleLists ==
  { <<>>, <<RuleNamed("test", 1, 0)>>,
    <<RuleNamed("Default", 2, 1), RuleNamed("test", 1, 0)>> }
SamplingTargetMaps ==
  { {TargetNamed("test", 2)}, {TargetNamed("Default", 1)} }
SamplingRequests == {a \in RequestAttributes : a.kv # {}}

(***************************************************************************)
(* Spec: the remote sampler deciding root requests while rules arrive,     *)
(* statistics are reported and the clock moves by a second or by more than *)
(* the life of the cache.                                                  *)
(***************************************************************************)
Next ==
  \/ Tick({MILLIS_PER_SECOND, RULE_CACHE_TTL_MILLIS + 1})
  \/ UpdateRules(SamplingRuleLists)
  \/ CreateSamplingStatisticsDocuments
  \/ ShouldSample({"_AwsXRayRemoteSampler"}, {"root"}, TraceIds, SamplingRequests)

Spec == Init /\ [][Next]_vars

(***************************************************************************)
(* SpecReservoir: requests that the rule "test" matches, at a trace id no  *)
(* fixed rate samples, while rules and targets arrive, statistics are      *)
(* reported and the clock moves.                                           *)
(***************************************************************************)
MatchingRequests ==
  {a \in RequestAttributes : attributeMatch(a, RuleNamed("test", 1, 0).Attributes)}

NextReservoir ==
  \/ Tick({MILLIS_PER_SECOND, RULE_CACHE_TTL_MILLIS + 1})
  \/ UpdateRules(SamplingRuleLists)
  \/ UpdateTargets(SamplingTargetMaps, {0})
  \/ CreateSamplingStatisticsDocuments
  \/ ShouldSample({"_AwsXRayRemoteSampler"}, {"root"}, {50}, MatchingRequests)

SpecReservoir == Init /\ [][NextReservoir]_vars

(***************************************************************************)
(* SpecParent: the same requests asked of the parent-based sampler and of  *)
(* the remote sampler, in every context.                                   *)
(***************************************************************************)
NextParent ==
  \/ UpdateRules(SamplingRuleLists)
  \/ UpdateTargets(SamplingTargetMaps, {0})
  \/ CreateSamplingStatisticsDocuments
  \/ ShouldSample(Samplers, Contexts, {3}, SamplingRequests)

SpecParent == Init /\ [][NextParent]_vars

(***************************************************************************)
(* SpecMatch: lookups in the cache under every rules response.             *)
(***************************************************************************)
NextMatch ==
  \/ UpdateRules(RuleLists)
  \/ UpdateTargets(TargetMaps, {0})
  \/ GetMatchedRule(RequestAttributes)

SpecMatch == Init /\ [][NextMatch]_vars

(***************************************************************************)
(* SpecRules: rules responses that keep, change and drop the rules "test"  *)
(* and Default, between decisions and targets.                             *)
(***************************************************************************)
RefreshRuleLists ==
  {q \in RuleLists : \A i \in 1..Len(q) : q[i].RuleName = "test" \/ q[i].Priority = 2}

NextRules ==
  \/ Tick({1})
  \/ UpdateRules(RefreshRuleLists)
  \/ UpdateTargets(SamplingTargetMaps, {0})
  \/ ShouldSample({"_AwsXRayRemoteSampler"}, {"root"}, {3}, SamplingRequests)

SpecRules == Init /\ [][NextRules]_vars

(***************************************************************************)
(* SpecTargets: every targets response, as the clock and the last refresh  *)
(* of the rules move.                                                      *)
(***************************************************************************)
NextTargets ==
  \/ Tick({1, MILLIS_PER_SECOND})
  \/ UpdateRules(SamplingRuleLists)
  \/ UpdateTargets(TargetMaps, RuleModificationTimes)

SpecTargets == Init /\ [][NextTargets]_vars

(***************************************************************************)
(* SpecExpiry: the cache asked whether it is expired, while the clock      *)
(* moves by a millisecond or by the life of the cache and rules and        *)
(* targets arrive.                                                         *)
(***************************************************************************)
NextExpiry ==
  \/ Tick({1, RULE_CACHE_TTL_MILLIS})
  \/ UpdateRules(SamplingRuleLists)
  \/ UpdateTargets(SamplingTargetMaps, {0})
  \/ IsExpired

SpecExpiry == Init /\ [][NextExpiry]_vars

(***************************************************************************)
(* SpecMatching: wildcardMatch and attributeMatch applied to the patterns, *)
(* values and attribute maps the initial state draws.                      *)
(***************************************************************************)
\* the characters of the patterns: letters of either case, the wildcards and
\* a character that means something to a RegExp
PatternChars == {"a", "B", "*", "?", "."}
\* the characters of the values: letters of either case, a dot and a line feed
TextChars == {"A", "b", ".", "\n"}

Patterns == {Str(p) : p \in SeqsOver(PatternChars, MaxPatternLen)} \cup {Undefined}
Texts == {Str(v) : v \in SeqsOver(TextChars, MaxTextLen)} \cup {Num, Undefined}

\* the maps from some of the keys to the values
MapsOver(keys, values) ==
  {AttrMap(kv) : kv \in {S \in SUBSET (keys \X values) :
                           \A x \in S, y \in S : x[1] = y[1] => x = y}}

AttributeKeys == {"abc", "k"}
\* the attributes of a request: strings, a number, a key holding undefined
AttributeMaps ==
  MapsOver(AttributeKeys,
           {Str(<<"1", "2", "3", "4">>), Str(<<"x">>), Num, Undefined})
    \cup {NoAttrMap}
\* the Attributes of a rule: patterns
RuleAttributeMaps ==
  MapsOver(AttributeKeys, {<<"1", "*">>, <<"x">>, <<"*">>}) \cup {NoAttrMap}

InitMatching ==
  /\ now = 0
  /\ ruleAppliers = <<>>
  /\ lastUpdatedEpochMillis = 0
  /\ fallbackLimiter = NewLimiter
  /\ window = [n \in RuleNames |-> NoWindow]
  /\ ticks = 0
  /\ pollers = NoPollers
  /\ tasks = NoTasks
  /\ \/ \E pattern \in Patterns, text \in Texts :
          ret = [NoRet EXCEPT !.op = "pattern and text",
                              !.pattern = pattern, !.text = text]
     \/ \E attributes \in AttributeMaps, ruleAttributes \in RuleAttributeMaps :
          ret = [NoRet EXCEPT !.op = "attributes and ruleAttributes",
                              !.attributes = attributes,
                              !.ruleAttributes = ruleAttributes]

\* wildcardMatch(pattern, text)
WildcardMatch ==
  /\ ret.op = "pattern and text"
  /\ ret' = [ret EXCEPT !.op = "wildcardMatch",
                        !.result = wildcardMatch(ret.pattern, ret.text)]
  /\ UNCHANGED <<tasks, pollers, now, ticks, ruleAppliers, lastUpdatedEpochMillis, fallbackLimiter, window>>

\* attributeMatch(attributes, ruleAttributes)
AttributeMatch ==
  /\ ret.op = "attributes and ruleAttributes"
  /\ ret' = [ret EXCEPT !.op = "attributeMatch",
                        !.result = attributeMatch(ret.attributes, ret.ruleAttributes)]
  /\ UNCHANGED <<tasks, pollers, now, ticks, ruleAppliers, lastUpdatedEpochMillis, fallbackLimiter, window>>

NextMatching == WildcardMatch \/ AttributeMatch

SpecMatching == InitMatching /\ [][NextMatching]_vars

(***************************************************************************)
(* SpecDefault: updateRules given any list of distinct rules, lists with   *)
(* two rules of one name included, and updateTargets.                      *)
(***************************************************************************)
AnyRuleLists ==
  {q \in SeqsOver(RuleCatalog, MaxRules) : Cardinality(Range(q)) = Len(q)}

NextDefault ==
  \/ UpdateRules(AnyRuleLists)
  \/ UpdateTargets(TargetMaps, {0})

SpecDefault == Init /\ [][NextDefault]_vars

(***************************************************************************)
(* SpecBorrow: two rules with a reservoir, each matched by its own         *)
(* requests, deciding before and after targets arrive, second by second.   *)
(***************************************************************************)
BorrowRuleLists ==
  { <<RuleNamed("Default", 2, 1), RuleNamed("test", 1, 1)>>,
    <<RuleNamed("Default", 2, 1), RuleNamed("test", 1, 0)>> }

NextBorrow ==
  \/ Tick({MILLIS_PER_SECOND})
  \/ UpdateRules(BorrowRuleLists)
  \/ UpdateTargets({{TargetNamed("test", 2)}}, {0})
  \/ ShouldSample({"_AwsXRayRemoteSampler"}, {"root"}, TraceIds, SamplingRequests)

SpecBorrow == Init /\ [][NextBorrow]_vars

(***************************************************************************)
(* SpecPollers: the rules poller sending its requests, which succeed or    *)
(* fail, between decisions, while the clock moves by the life of the       *)
(* cache.                                                                  *)
(***************************************************************************)
NextPollers ==
  \/ Tick({RULE_CACHE_TTL_MILLIS})
  \/ RulePollerTick
  \/ RulesFetchSucceeds(SamplingRuleLists)
  \/ RulesFetchFails
  \/ ShouldSample({"_AwsXRayRemoteSampler"}, {"root"}, {50}, SamplingRequests)

SpecPollers == Init /\ [][NextPollers]_vars

(***************************************************************************)
(* SpecRefresh: the two pollers sending their requests, which succeed or   *)
(* fail, the targets responses naming every time of the last change of the *)
(* rules.                                                                  *)
(***************************************************************************)
NextRefresh ==
  \/ Tick({1})
  \/ RulePollerTick
  \/ RulesFetchSucceeds(SamplingRuleLists)
  \/ RulesFetchFails
  \/ TargetPollerTick
  \/ TargetsFetchSucceeds(SamplingTargetMaps, RuleModificationTimes)
  \/ TargetsFetchFails

SpecRefresh == Init /\ [][NextRefresh]_vars

(***************************************************************************)
(* SpecPolling: the rules poller over several of its intervals, its        *)
(* requests succeeding or failing.                                         *)
(***************************************************************************)
NextPolling ==
  \/ Tick({DEFAULT_RULES_POLLING_INTERVAL_SECONDS * MILLIS_PER_SECOND})
  \/ RulePollerTick
  \/ RulesFetchSucceeds(SamplingRuleLists)
  \/ RulesFetchFails

SpecPolling == Init /\ [][NextPolling]_vars

(***************************************************************************)
(* SpecScan: getMatchedRule, updateRules and updateTargets taken apart     *)
(* into their steps, on the one thread of the program.                     *)
(***************************************************************************)
NextScan ==
  \/ Tick({1})
  \/ GetMatchedRuleBegin(SamplingRequests)
  \/ GetMatchedRuleStep
  \/ UpdateRulesBegin(SamplingRuleLists)
  \/ UpdateRulesEnd
  \/ UpdateTargetsBegin(SamplingTargetMaps, {0})
  \/ UpdateTargetsStep

SpecScan == Init /\ [][NextScan]_vars

(***************************************************************************)
(* SpecEmit: the patched _emit called once, for every configuration, span, *)
(* logHook and record the initial state draws.                             *)
(***************************************************************************)
LogHooks == {"undefined", "returns", "adds", "throws", "adds and throws"}

Configs ==
  {[disableLogSending |-> FALSE, disableLogCorrelation |-> d, logHook |-> h] :
     d \in BOOLEAN, h \in LogHooks}

Spans ==
  {NoSpan} \cup
  {SpanOf(t, sp, f) : t \in {INVALID_TRACEID, "0af7651916cd43dd8448eb211c80319c"},
                      sp \in {INVALID_SPANID, "b7ad6b7169203331"},
                      f \in {0, 1}}

\* log records: the fields of a plain record, and of one that comes with a
\* trace_id of its own
Records ==
  { [k \in {"msg"} |-> <<"h", "i">>],
    [k \in {"msg", "trace_id"} |-> IF k = "msg" THEN <<"h", "i">> ELSE <<"o", "l", "d">>] }

\* the arguments of _emit: the record (the object, whatever its fields) and
\* noemit
EmitArgs == {<<"rec", noemit>> : noemit \in BOOLEAN}

InitEmit ==
  /\ now = 0
  /\ ruleAppliers = <<>>
  /\ lastUpdatedEpochMillis = 0
  /\ fallbackLimiter = NewLimiter
  /\ window = [n \in RuleNames |-> NoWindow]
  /\ ticks = 0
  /\ pollers = NoPollers
  /\ tasks = NoTasks
  /\ \E enabled \in BOOLEAN, config \in Configs, span \in Spans,
        args \in EmitArgs, record \in Records :
       ret = [NoRet EXCEPT !.op = "logger and record",
                           !.emit = [NoEmit EXCEPT !.enabled = enabled,
                                                   !.config = config,
                                                   !.span = span,
                                                   !.args = args,
                                                   !.record = record]]

\* logger._emit(rec, noemit) on a patched Logger
PatchedEmit ==
  /\ ret.op = "logger and record"
  /\ LET in == ret.emit
         out == patchedEmit(in.enabled, in.config, in.span, in.args, in.record)
     IN  ret' = [ret EXCEPT !.op = "_emit",
                            !.emit = [in EXCEPT !.record = out.record,
                                                !.originalCalls = out.originalCalls,
                                                !.diagErrors = out.diagErrors,
                                                !.thrown = out.thrown,
                                                !.hookCalls = out.hookCalls]]
  /\ UNCHANGED <<tasks, pollers, now, ticks, ruleAppliers, lastUpdatedEpochMillis,
                 fallbackLimiter, window>>

NextEmit == PatchedEmit

SpecEmit == InitEmit /\ [][NextEmit]_vars

(***************************************************************************)
(* Properties.                                                             *)
(***************************************************************************)
\* the step is a decision on a root request
RootDecisionStep == ret'.op = "shouldSample" /\ ret'.ctx = "root"

\* the cached appliers that a request with these attributes may be given:
\* those whose predicate it satisfies and those named Default
Candidates(appliers, attributes) ==
  {i \in 1..Len(appliers) :
     \/ ApplierMatches(appliers[i], attributes, samplerResource)
     \/ appliers[i].samplingRule.RuleName = "Default"}

\* C1: a root request is decided by the FallbackSampler when the cache has
\* not been refreshed for more than an hour or no cached rule is found for
\* the request, and then no applier is touched; otherwise it is decided by
\* the applier found, and the FallbackSampler is not consulted.
C1_FallbackOrMatchedRule ==
  [][RootDecisionStep =>
       LET cands == Candidates(ruleAppliers, ret'.attributes)
           expired == now > lastUpdatedEpochMillis + RULE_CACHE_TTL_MILLIS
           fb == FallbackShouldSample(fallbackLimiter, now, ret'.traceId)
       IN  IF expired \/ cands = {}
           THEN /\ ret'.via = "fallback"
                /\ ret'.decision = fb.decision
                /\ fallbackLimiter' = fb.limiter
                /\ ruleAppliers' = ruleAppliers
           ELSE /\ ret'.via = "rule"
                /\ ret'.matched \in cands
                /\ ret'.decision =
                     ApplierShouldSample(ruleAppliers[ret'.matched], now,
                                         ret'.traceId).decision
                /\ fallbackLimiter' = fallbackLimiter]_vars

\* a request that a cached rule matches was decided by the FallbackSampler,
\* the cache being older than an hour
C1_Witness ==
  /\ ret.op = "shouldSample" /\ ret.ctx = "root" /\ ret.via = "fallback"
  /\ now > lastUpdatedEpochMillis + RULE_CACHE_TTL_MILLIS
  /\ Candidates(ruleAppliers, ret.attributes) # {}

\* the first of a non-empty set of positions in the cache
First(idx) == CHOOSE i \in idx : \A j \in idx : i <= j

\* C2: asked of the parent-based sampler, a request under a parent returns
\* the parent's decision and leaves every applier as it was; every other
\* request that a cached rule is found for (a root request of the
\* parent-based sampler, any request of the remote sampler itself) adds
\* exactly 1 to the RequestCount of that rule and nothing to any other's.
C2_ParentBasedCountsRootsOnly ==
  [][ret'.op = "shouldSample" =>
       LET cands == Candidates(ruleAppliers, ret'.attributes)
           expired == now > lastUpdatedEpochMillis + RULE_CACHE_TTL_MILLIS
           count(appliers, i) == appliers[i].statistics.RequestCount
       IN  IF ret'.sampler = "AwsXRayRemoteSampler" /\ ret'.ctx # "root"
           THEN /\ ret'.decision = (IF ret'.ctx = "parent_sampled"
                                    THEN RECORD_AND_SAMPLED ELSE NOT_RECORD)
                /\ ruleAppliers' = ruleAppliers
           ELSE (~expired /\ cands # {}) =>
                  /\ Len(ruleAppliers') = Len(ruleAppliers)
                  /\ \A i \in 1..Len(ruleAppliers) :
                       count(ruleAppliers', i) =
                         count(ruleAppliers, i) + (IF i = First(cands) THEN 1 ELSE 0)]_vars

\* a child request of the parent-based sampler answered NOT_RECORD from its
\* parent, the one request counted so far being the root's
C2_Witness ==
  /\ ret.op = "shouldSample" /\ ret.sampler = "AwsXRayRemoteSampler"
  /\ ret.ctx = "parent_not_sampled" /\ ret.decision = NOT_RECORD
  /\ Candidates(ruleAppliers, ret.attributes) # {}
  /\ TotalRequestCount(ruleAppliers) = 1

Min(a, b) == IF a < b THEN a ELSE b

\* C3: when all the requests a rule has decided within the current second
\* were decided under one quota q with unexpired TTL at fixed rate 0, exactly
\* min(n, q) of those n requests were recorded; the count starts again with
\* every second.
C3_ReservoirGrantsExactlyQuota ==
  \A name \in RuleNames :
    window[name].quota >= 0 =>
      window[name].recorded = Min(window[name].requests, window[name].quota)

\* in a second after the first, three requests decided under a quota of 2:
\* two recorded, the third denied by the reservoir and by the fixed rate
C3_Witness ==
  /\ now >= MILLIS_PER_SECOND
  /\ window["test"] = [requests |-> 3, recorded |-> 2, quota |-> 2]

\* the step is a root request that the only cached rule, a rule of
\* ReservoirSize 0 and FixedRate 0, matches
SingleZeroRuleStep ==
  /\ RootDecisionStep
  /\ Len(ruleAppliers) = 1
  /\ ruleAppliers[1].samplingRule.ReservoirSize = 0
  /\ ruleAppliers[1].samplingRule.FixedRate = 0
  /\ ApplierMatches(ruleAppliers[1], ret'.attributes, samplerResource)

\* the applier holds a positive quota whose TTL has not passed at time t
HoldsQuota(a, t) == a.hasTarget /\ a.quota > 0 /\ t < a.ttl * MILLIS_PER_SECOND

\* C4 as stated: with a single cached rule of ReservoirSize 0 and FixedRate 0,
\* every matching root request before any target is NOT_RECORD, and under a
\* positive quota the first quota requests of a second are RECORD_AND_SAMPLED.
C4_AsStated ==
  [][SingleZeroRuleStep =>
       LET a == ruleAppliers[1]
           name == a.samplingRule.RuleName
       IN  /\ ~a.hasTarget => ret'.decision = NOT_RECORD
           /\ (HoldsQuota(a, now) /\ window[name].requests < a.quota)
                => ret'.decision = RECORD_AND_SAMPLED]_vars

\* C4, for a cache that is not expired: with a single cached rule of
\* ReservoirSize 0 and FixedRate 0, every matching root request before any
\* target is NOT_RECORD, and under a positive quota with unexpired TTL the
\* first quota requests of a second are RECORD_AND_SAMPLED.
C4_ZeroRuleUntilQuota ==
  [][(SingleZeroRuleStep /\ ~(now > lastUpdatedEpochMillis + RULE_CACHE_TTL_MILLIS)) =>
       LET a == ruleAppliers[1]
           name == a.samplingRule.RuleName
       IN  /\ ~a.hasTarget => ret'.decision = NOT_RECORD
           /\ (HoldsQuota(a, now) /\ window[name].requests < a.quota)
                => ret'.decision = RECORD_AND_SAMPLED]_vars

\* the second request of a second recorded under a quota of 2, by the only
\* cached rule, a rule of ReservoirSize 0 and FixedRate 0, at a trace id the
\* fixed rate would not sample
C4_Witness ==
  /\ ret.op = "shouldSample" /\ ret.ctx = "root" /\ ret.via = "rule"
  /\ ret.decision = RECORD_AND_SAMPLED /\ ret.traceId = 50
  /\ Len(ruleAppliers) = 1
  /\ ruleAppliers[1].samplingRule.ReservoirSize = 0
  /\ ruleAppliers[1].samplingRule.FixedRate = 0
  /\ HoldsQuota(ruleAppliers[1], now)
  /\ window["test"] = [requests |-> 2, recorded |-> 2, quota |-> 2]

\* applier a comes before applier b in (Priority ascending, RuleName
\* ascending) order
Before(a, b) ==
  \/ a.samplingRule.Priority < b.samplingRule.Priority
  \/ /\ a.samplingRule.Priority = b.samplingRule.Priority
     /\ NameLess(a.samplingRule.RuleName, b.samplingRule.RuleName)

\* position i holds the applier that comes before all others of idx
Lowest(appliers, idx, i) ==
  /\ i \in idx
  /\ \A j \in idx \ {i} : Before(appliers[i], appliers[j])

\* C5: getMatchedRule returns the applier that comes first, in (Priority
\* ascending, RuleName ascending) order, among those whose matches is true or
\* whose RuleName is "Default", and returns none exactly when there is no
\* such applier.
C5_FirstMatchOrDefault ==
  ret.op = "getMatchedRule" =>
    LET cands == Candidates(ruleAppliers, ret.attributes)
    IN  IF cands = {} THEN ret.matched = 0
        ELSE Lowest(ruleAppliers, cands, ret.matched)

\* two rules of equal Priority both match the request, and the one of the
\* lesser name was returned
C5_Witness ==
  /\ ret.op = "getMatchedRule" /\ ret.matched # 0
  /\ \E j \in Candidates(ruleAppliers, ret.attributes) \ {ret.matched} :
       /\ ApplierMatches(ruleAppliers[j], ret.attributes, samplerResource)
       /\ ruleAppliers[j].samplingRule.Priority =
            ruleAppliers[ret.matched].samplingRule.Priority
  /\ ApplierMatches(ruleAppliers[ret.matched], ret.attributes, samplerResource)

\* C6 as stated: getMatchedRule returns the applier of lowest (Priority,
\* RuleName) among those whose predicate the request satisfies, the Default
\* rule only when it satisfies none, and none only when there is no Default
\* rule either.
C6_AsStated ==
  ret.op = "getMatchedRule" =>
    LET satisfied == {i \in 1..Len(ruleAppliers) :
                        ApplierMatches(ruleAppliers[i], ret.attributes, samplerResource)}
        defaults == {i \in 1..Len(ruleAppliers) :
                       ruleAppliers[i].samplingRule.RuleName = "Default"}
    IN  IF satisfied # {} THEN Lowest(ruleAppliers, satisfied, ret.matched)
        ELSE IF defaults # {} THEN ret.matched \in defaults
        ELSE ret.matched = 0

\* the Default rule was returned, its predicate not satisfied, for a request
\* that satisfies the predicate of another cached rule
C6_DefaultShadowsMatch ==
  /\ ret.op = "getMatchedRule" /\ ret.matched # 0
  /\ ruleAppliers[ret.matched].samplingRule.RuleName = "Default"
  /\ ~ApplierMatches(ruleAppliers[ret.matched], ret.attributes, samplerResource)
  /\ \E j \in 1..Len(ruleAppliers) :
       ApplierMatches(ruleAppliers[j], ret.attributes, samplerResource)

\* the rules of the cached appliers
CachedRules(appliers) == {appliers[i].samplingRule : i \in 1..Len(appliers)}

\* C7: after updateRules(S) the cache holds one applier per rule of S and no
\* other; the applier of a rule that was cached under the same name with
\* equal content is the instance the cache held, with its reservoir state
\* and statistics; the applier of every other rule is a new one.
C7_UpdateRulesKeepsEqualRules ==
  [][ret'.op = "updateRules" =>
       /\ Len(ruleAppliers') = Cardinality(ret'.rules)
       /\ CachedRules(ruleAppliers') = ret'.rules
       /\ \A i \in 1..Len(ruleAppliers') :
            LET a == ruleAppliers'[i]
                old == {j \in 1..Len(ruleAppliers) :
                          ruleAppliers[j].samplingRule = a.samplingRule}
            IN  IF old # {}
                THEN \E j \in old : a = [ruleAppliers[j] EXCEPT !.isNew = FALSE]
                ELSE a = NewApplier(a.samplingRule)]_vars

\* a rules response came in that kept an applier holding a quota and counted
\* requests, and adopted a new applier beside it
C7_Witness ==
  /\ ret.op = "updateRules"
  /\ \E i, j \in 1..Len(ruleAppliers) :
       /\ ~ruleAppliers[i].isNew /\ ruleAppliers[i].hasTarget
       /\ ruleAppliers[i].statistics.RequestCount > 0
       /\ ruleAppliers[j].isNew

\* C8: updateRules with a rule set equal to the cached one leaves every
\* applier as it was, its RequestCount, SampleCount, BorrowCount and quota
\* included; of the cache only lastUpdatedEpochMillis moves, to the present.
C8_UpdateRulesIdempotent ==
  [][(ret'.op = "updateRules" /\ ret'.rules = CachedRules(ruleAppliers)) =>
       /\ ruleAppliers' = Existing(ruleAppliers)
       /\ lastUpdatedEpochMillis' = now
       /\ UNCHANGED <<fallbackLimiter, now>>]_vars

\* the cached rule set was applied again, later than the last refresh, to
\* appliers holding a quota and statistics
C8_Witness ==
  /\ ret.op = "updateRules" /\ ret.rules = CachedRules(ruleAppliers)
  /\ lastUpdatedEpochMillis > 0
  /\ Len(ruleAppliers) = 2
  /\ \A i \in 1..Len(ruleAppliers) : ~ruleAppliers[i].isNew
  /\ \E i \in 1..Len(ruleAppliers) :
       /\ ruleAppliers[i].hasTarget /\ ruleAppliers[i].quota > 0
       /\ ruleAppliers[i].statistics.SampleCount > 0

\* C9: updateTargets returns refreshSamplingRules = TRUE exactly when
\* lastRuleModification * 1000 > lastUpdatedEpochMillis, whatever the targets
\* and whether or not any of them names a cached rule.
C9_RefreshIffModifiedSinceUpdate ==
  ret.op = "updateTargets" =>
    (ret.refreshSamplingRules <=>
       ret.lastRuleModification * 1000 > lastUpdatedEpochMillis)

\* a rule modification one second into the epoch, reported to a cache
\* refreshed 2 ms into it, with targets none of which names a cached rule
C9_Witness ==
  /\ ret.op = "updateTargets" /\ ret.refreshSamplingRules
  /\ ret.lastRuleModification = 1 /\ lastUpdatedEpochMillis = 2
  /\ ret.targets # {}
  /\ \A t \in ret.targets, i \in 1..Len(ruleAppliers) :
       t.RuleName # ruleAppliers[i].samplingRule.RuleName

\* the received targets that carry an Interval
Intervals(targets) == {t.Interval : t \in {u \in targets : u.hasInterval}}

\* C10 as stated: updateTargets returns the minimum Interval of all received
\* targets, and 10 seconds when none of them carries an Interval.
C10_AsStated ==
  ret.op = "updateTargets" =>
    LET ivs == Intervals(ret.targets)
    IN  IF ivs = {} THEN ret.nextPollingInterval = 10
        ELSE /\ ret.nextPollingInterval \in ivs
             /\ \A v \in ivs : ret.nextPollingInterval <= v

\* C10, over the targets the loop looks at: updateTargets returns the minimum
\* non-zero Interval of the received targets that name a cached rule, and 10
\* seconds when none of those carries a non-zero Interval.
C10_MinIntervalOfCachedRules ==
  ret.op = "updateTargets" =>
    LET cached == {t \in ret.targets :
                     \E i \in 1..Len(ruleAppliers) :
                       ruleAppliers[i].samplingRule.RuleName = t.RuleName}
        ivs == Intervals(cached) \ {0}
    IN  IF ivs = {} THEN ret.nextPollingInterval = 10
        ELSE /\ ret.nextPollingInterval \in ivs
             /\ \A v \in ivs : ret.nextPollingInterval <= v

\* targets for two cached rules came in with Intervals 20 and 5, and 5 was
\* returned
C10_Witness ==
  /\ ret.op = "updateTargets" /\ ret.nextPollingInterval = 5
  /\ Intervals(ret.targets) = {5, 20}
  /\ Len(ruleAppliers) = 2

\* C11: lastUpdatedEpochMillis is the time of the last updateRules (of the
\* construction before the first), no other operation moves it, and
\* isExpired() is true exactly when the present time is more than 3,600,000
\* ms after it: not yet at exactly one hour, never right after updateRules.
C11_ExpiredAfterOneHour ==
  [][/\ ret'.op = "updateRules" =>
          /\ lastUpdatedEpochMillis' = now'
          /\ ~isExpired(lastUpdatedEpochMillis', now')
     /\ ret'.op # "updateRules" => lastUpdatedEpochMillis' = lastUpdatedEpochMillis
     /\ ret'.op = "isExpired" =>
          (ret'.expired <=> now' > lastUpdatedEpochMillis' + 3600000)]_vars

\* the cache, refreshed 1 ms into the epoch, answers "not expired" exactly one
\* hour after that refresh
C11_Witness ==
  /\ ret.op = "isExpired" /\ ~ret.expired
  /\ lastUpdatedEpochMillis = 1
  /\ now = lastUpdatedEpochMillis + 3600000

\* C12: a request decided by the FallbackSampler is sampled exactly when its
\* rate limiter, which grants one request per second, grants it or the trace
\* id falls inside the 5% ratio; the limiter counts the grant and nothing else.
C12_FallbackLimiterThenRatio ==
  [][(ret'.op = "shouldSample" /\ ret'.via = "fallback") =>
       LET granted == fallbackLimiter.used < 1
       IN  /\ ret'.decision \in {RECORD_AND_SAMPLED, NOT_RECORD}
           /\ ret'.decision = RECORD_AND_SAMPLED <=> (granted \/ ret'.traceId < 5)
           /\ fallbackLimiter'.used = fallbackLimiter.used + (IF granted THEN 1 ELSE 0)]_vars

\* a request denied by the FallbackSampler: the limiter has granted its one
\* request of the second and the trace id lies outside the 5%
C12_Witness ==
  /\ ret.op = "shouldSample" /\ ret.via = "fallback"
  /\ ret.decision = NOT_RECORD /\ ret.traceId = 50
  /\ fallbackLimiter.used = 1

\* document d carries no counts
ZeroDocument(d) == d.RequestCount = 0 /\ d.SampledCount = 0 /\ d.BorrowCount = 0

\* C13: createSamplingStatisticsDocuments returns one document per cached
\* applier, in the order of the cache, with the applier's name, the counts it
\* held and the present time in whole seconds, and leaves every applier with
\* counts of 0 and otherwise as it was; called twice in a row, it returns only
\* zero counts the second time.
C13_OneDocumentPerApplierThenReset ==
  [][ret'.op = "createSamplingStatisticsDocuments" =>
       /\ Len(ret'.documents) = Len(ruleAppliers)
       /\ Len(ruleAppliers') = Len(ruleAppliers)
       /\ \A i \in 1..Len(ruleAppliers) :
            LET a == ruleAppliers[i]
                d == ret'.documents[i]
            IN  /\ d.RuleName = a.samplingRule.RuleName
                /\ d.RequestCount = a.statistics.RequestCount
                /\ d.SampledCount = a.statistics.SampleCount
                /\ d.BorrowCount = a.statistics.BorrowCount
                /\ d.Timestamp * 1000 <= now /\ now < (d.Timestamp + 1) * 1000
                /\ ruleAppliers'[i] =
                     [a EXCEPT !.statistics =
                        [RequestCount |-> 0, SampleCount |-> 0, BorrowCount |-> 0]]
       /\ ret.op = "createSamplingStatisticsDocuments" =>
            \A i \in 1..Len(ret'.documents) : ZeroDocument(ret'.documents[i])]_vars

\* a report, 3,600,001 ms into the epoch, of two appliers: one with counted
\* requests, one with none
C13_Witness ==
  /\ ret.op = "createSamplingStatisticsDocuments"
  /\ Len(ret.documents) = 2
  /\ \E i, j \in 1..2 :
       /\ ret.documents[i].RequestCount > 0 /\ ret.documents[i].SampledCount > 0
       /\ ZeroDocument(ret.documents[j])
  /\ \A i \in 1..2 : ret.documents[i].Timestamp = 3600
  /\ now = 3600001

\* the reference glob match of pattern p against value v: `*` stands for any
\* sequence of characters, `?` for exactly one, every other character for
\* itself
RECURSIVE GlobMatch(_, _)
GlobMatch(p, v) ==
  IF p = <<>> THEN v = <<>>
  ELSE IF Head(p) = "*"
  THEN GlobMatch(Tail(p), v) \/ (v # <<>> /\ GlobMatch(p, Tail(v)))
  ELSE IF Head(p) = "?"
  THEN v # <<>> /\ GlobMatch(Tail(p), Tail(v))
  ELSE v # <<>> /\ Head(p) = Head(v) /\ GlobMatch(Tail(p), Tail(v))

\* wildcardMatch was applied to a pattern and a string value
StringMatched ==
  ret.op = "wildcardMatch" /\ ret.pattern.kind = "string" /\ ret.text.kind = "string"

\* C14 as stated: for every pattern and every string value, wildcardMatch
\* equals the reference glob match of the two, compared ignoring case.
C14_AsStated ==
  StringMatched =>
    (ret.result <=> GlobMatch(toLowerCase(ret.pattern.chars),
                              toLowerCase(ret.text.chars)))

\* C14 for values without line terminators: wildcardMatch equals the
\* reference glob match of pattern and value, compared ignoring case.
C14_GlobMatchWithoutLineTerminators ==
  (StringMatched /\ \A i \in 1..Len(ret.text.chars) : ret.text.chars[i] \notin {"\n", "\r"})
    => (ret.result <=> GlobMatch(toLowerCase(ret.pattern.chars),
                                 toLowerCase(ret.text.chars)))

\* wildcardMatch refused a value that the reference glob match accepts
C14_WildcardRefusesLineFeed ==
  /\ StringMatched /\ ~ret.result
  /\ GlobMatch(toLowerCase(ret.pattern.chars), toLowerCase(ret.text.chars))

\* C15 as stated: wildcardMatch is false for every pattern when the value
\* is absent or not a string.
C15_AsStated ==
  (ret.op = "wildcardMatch" /\ ret.text.kind # "string") => ~ret.result

\* C15, but for the pattern "*": when the value is absent or not a string,
\* wildcardMatch is true for the pattern "*" and false for every other
\* pattern.
C15_OnlyStarMatchesNonStrings ==
  (ret.op = "wildcardMatch" /\ ret.text.kind # "string") =>
    (ret.result <=> (ret.pattern.kind = "string" /\ ret.pattern.chars = <<"*">>))

\* the pattern "**" was refused for an absent value
C15_Witness ==
  /\ ret.op = "wildcardMatch" /\ ~ret.result
  /\ ret.text.kind = "undefined"
  /\ ret.pattern.kind = "string" /\ ret.pattern.chars = <<"*", "*">>

\* the attribute map holds key, with a value the pattern accepts
Accepts(attributes, key, pattern) ==
  /\ attributes.defined
  /\ \E e \in attributes.kv : e[1] = key /\ wildcardMatch(Str(pattern), e[2])

\* C16: attributeMatch is true exactly when every key the rule declares is
\* present in the attributes with a value that wildcardMatch accepts for the
\* declared pattern (so always for a rule without attributes).
C16_EveryDeclaredKeyMatches ==
  ret.op = "attributeMatch" =>
    (ret.result <=>
       (ret.ruleAttributes.defined =>
          \A r \in ret.ruleAttributes.kv : Accepts(ret.attributes, r[1], r[2])))

\* the rule declares two keys, the attributes hold both, one value is accepted
\* and the other is not: no match
C16_Witness ==
  /\ ret.op = "attributeMatch" /\ ~ret.result
  /\ Cardinality(ret.ruleAttributes.kv) = 2
  /\ Cardinality(ret.attributes.kv) = 2
  /\ \E r \in ret.ruleAttributes.kv : Accepts(ret.attributes, r[1], r[2])

\* the cached appliers named Default
Defaults(appliers) ==
  {i \in 1..Len(appliers) : appliers[i].samplingRule.RuleName = "Default"}

C18_BorrowOncePerSecondPerRule ==
  [][(ret'.op = "shouldSample" /\ ret'.via = "rule") =>
       LET m == ret'.matched
           a == ruleAppliers[m]
           b == ruleAppliers'[m]
           first == window[a.samplingRule.RuleName].requests = 0
           borrowed == b.statistics.BorrowCount - a.statistics.BorrowCount
           byRate == IF ret'.traceId < a.fixedRate
                     THEN RECORD_AND_SAMPLED ELSE NOT_RECORD
       IN  /\ \A i \in 1..Len(ruleAppliers) \ {m} : ruleAppliers'[i] = ruleAppliers[i]
           /\ a.hasTarget => borrowed = 0
           /\ ~a.hasTarget =>
                IF first /\ a.samplingRule.ReservoirSize > 0
                THEN /\ borrowed = 1
                     /\ ret'.decision = RECORD_AND_SAMPLED
                     /\ b.statistics.SampleCount = a.statistics.SampleCount + 1
                ELSE /\ borrowed = 0
                     /\ ret'.decision = byRate]_vars

\* within one second two rules without a quota have each borrowed once, and
\* the second request of one of them was not sampled
C18_Witness ==
  /\ ret.op = "shouldSample" /\ ret.via = "rule" /\ ret.decision = NOT_RECORD
  /\ Len(ruleAppliers) = 2
  /\ \A i \in 1..2 : /\ ~ruleAppliers[i].hasTarget
                     /\ ruleAppliers[i].statistics.BorrowCount = 1
  /\ ruleAppliers[ret.matched].statistics.RequestCount = 2
  /\ ruleAppliers[ret.matched].statistics.SampleCount = 1
  /\ window[ruleAppliers[ret.matched].samplingRule.RuleName].requests = 2


\* C19: a rules fetch that fails leaves the cached appliers, their order, their
\* statistics and lastUpdatedEpochMillis as they were; while the last answer
\* to a rules request is a failure, a root request is decided by a cached
\* rule exactly when the cache is no older than its hour and holds a rule for
\* the request, by the FallbackSampler otherwise, and in either case the
\* caller gets a sampling decision.
C19_FailedFetchKeepsCache ==
  [][/\ ret'.op = "rulesFetchFailed" =>
          /\ ruleAppliers' = ruleAppliers
          /\ lastUpdatedEpochMillis' = lastUpdatedEpochMillis
          /\ fallbackLimiter' = fallbackLimiter
     /\ (pollers.lastRules = "failure" /\ ret'.op = "shouldSample") =>
          LET cands == Candidates(ruleAppliers, ret'.attributes)
              fresh == now <= lastUpdatedEpochMillis + RULE_CACHE_TTL_MILLIS
          IN  /\ pollers' = pollers
              /\ lastUpdatedEpochMillis' = lastUpdatedEpochMillis
              /\ ret'.decision \in {NOT_RECORD, RECORD_AND_SAMPLED}
              /\ IF fresh /\ cands # {}
                 THEN /\ ret'.via = "rule"
                      /\ ret'.matched = First(cands)
                      /\ ret'.decision =
                           ApplierShouldSample(ruleAppliers[ret'.matched], now,
                                               ret'.traceId).decision
                 ELSE /\ ret'.via = "fallback"
                      /\ ruleAppliers' = ruleAppliers]_vars

\* the last rules request failed, and a request is decided by a cached rule in
\* the last millisecond of the hour since the rules were refreshed
C19_Witness ==
  /\ pollers.lastRules = "failure"
  /\ ret.op = "shouldSample" /\ ret.via = "rule"
  /\ ruleAppliers # <<>>
  /\ now = lastUpdatedEpochMillis + RULE_CACHE_TTL_MILLIS


\* C20: when the targets poller applies updateTargets to a targets response,
\* a rules request is sent in that very step, without waiting for the timer
\* of the rules poller and whether or not another rules request is in
\* flight, exactly when updateTargets returns refreshSamplingRules = true,
\* which it does exactly when lastRuleModification * 1000 >
\* lastUpdatedEpochMillis; when it returns false the requests in flight are
\* those there were.
C20_RefreshStartsRulesFetch ==
  [][ret'.op = "updateTargets" =>
       LET stale ==
             ret'.lastRuleModification * MILLIS_PER_SECOND > lastUpdatedEpochMillis
       IN  /\ ret'.refreshSamplingRules = stale
           /\ pollers'.rules = IF stale THEN pollers.rules + 1 ELSE pollers.rules
           /\ stale => pollers'.rules > 0
           /\ pollers'.lastRules = pollers.lastRules
           /\ lastUpdatedEpochMillis' = lastUpdatedEpochMillis]_vars

\* a targets response newer than the rules has started a rules request next
\* to the one the timer of the rules poller had sent
C20_Witness ==
  /\ ret.op = "updateTargets" /\ ret.refreshSamplingRules
  /\ ret.lastRuleModification * MILLIS_PER_SECOND > lastUpdatedEpochMillis
  /\ lastUpdatedEpochMillis > 0
  /\ pollers.rules = 2 /\ ~pollers.targets


\* the rules poller has no request in flight / has one in flight
RulesPollerIdle(p) == p.rules = 0
RulesPollerFetching(p) == p.rules > 0

\* C21: a cycle of the rules poller starts when its timer fires on an idle
\* poller, which then is fetching; a request ends in success or in failure
\* only while the poller is fetching, and with either outcome the poller is
\* idle again, its timer is still set, rulePollingIntervalMillis is what it
\* was and the time of the next poll is what it was: one interval after the
\* firing before it.  No step changes the interval or stops the timer.
C21_PollCycleKeepsInterval ==
  [][/\ pollers'.rulePoller
     /\ pollers'.rulePollingIntervalMillis = pollers.rulePollingIntervalMillis
     /\ ret'.op = "rulePollerTick" =>
          /\ now >= pollers.nextRulesPoll
          /\ pollers'.nextRulesPoll = now + pollers.rulePollingIntervalMillis
          /\ RulesPollerFetching(pollers')
          /\ pollers'.lastRules = pollers.lastRules
     /\ ret'.op \in {"updateRules", "rulesFetchFailed"} =>
          /\ RulesPollerFetching(pollers)
          /\ RulesPollerIdle(pollers')
          /\ pollers'.lastRules =
               (IF ret'.op = "updateRules" THEN "success" ELSE "failure")
          /\ pollers'.nextRulesPoll = pollers.nextRulesPoll
     /\ ret'.op \notin {"rulePollerTick", "updateRules", "rulesFetchFailed"} =>
          pollers' = pollers]_vars

\* the request of the first poll failed, and the poller is fetching again: its
\* timer has fired a second time, one unchanged interval after the first
C21_Witness ==
  /\ ret.op = "rulePollerTick"
  /\ pollers.lastRules = "failure"
  /\ RulesPollerFetching(pollers)
  /\ now = DEFAULT_RULES_POLLING_INTERVAL_SECONDS * MILLIS_PER_SECOND
  /\ pollers.nextRulesPoll = 2 * DEFAULT_RULES_POLLING_INTERVAL_SECONDS * MILLIS_PER_SECOND
  /\ lastUpdatedEpochMillis = 0 /\ ruleAppliers = <<>>


\* C22: every look of a getMatchedRule scan at the cache finds the appliers,
\* in their order, that the cache held when the scan was called, with no
\* updateRules and no updateTargets midway: the appliers the scan has looked
\* at are the first ones of that one ordering, never some of an old and some
\* of a new one, and what the scan returns is what getMatchedRule returns on
\* that ordering.
C22_ScanSeesOneOrdering ==
  [][ret'.op \in {"getMatchedRule", "getMatchedRule looks"} =>
       LET scan == tasks.scan
       IN  /\ tasks.write.op = "none"
           /\ ruleAppliers = scan.before
           /\ scan.seen = SubSeq(scan.before, 1, scan.index - 1)
           /\ ret'.op = "getMatchedRule" =>
                ret'.matched = getMatchedRule(scan.before, scan.attributes,
                                              samplerResource)]_vars

\* a scan has looked at the first of two appliers, which holds a target, and
\* gone on to the second, the rules having been refreshed after time 0
C22_Witness ==
  /\ tasks.scan.active /\ tasks.scan.index = 2 /\ Len(tasks.scan.seen) = 1
  /\ Len(ruleAppliers) = 2 /\ ruleAppliers[1].hasTarget
  /\ lastUpdatedEpochMillis > 0
  /\ tasks.write.op = "none"


\* the requests counted for the rule named n and not yet reported
RECURSIVE Unreported(_, _)
Unreported(appliers, n) ==
  IF appliers = <<>> THEN 0
  ELSE (IF Head(appliers).samplingRule.RuleName = n
        THEN Head(appliers).statistics.RequestCount ELSE 0)
       + Unreported(Tail(appliers), n)

\* the RequestCount the documents report for the rule named n
RECURSIVE Reported(_, _)
Reported(documents, n) ==
  IF documents = <<>> THEN 0
  ELSE (IF Head(documents).RuleName = n THEN Head(documents).RequestCount ELSE 0)
       + Reported(Tail(documents), n)

\* the rule named n is cached before and after the step, with the same content
SameRule(n) ==
  \E i \in 1..Len(ruleAppliers), j \in 1..Len(ruleAppliers') :
    /\ ruleAppliers[i].samplingRule.RuleName = n
    /\ ruleAppliers'[j].samplingRule.RuleName = n
    /\ RuleEquals(ruleAppliers[i].samplingRule, ruleAppliers'[j].samplingRule)

\* C23: in every step (a decision, a createSamplingStatisticsDocuments, an
\* updateTargets, an updateRules, a move of the clock) and for every rule the
\* step leaves cached with the same content, the requests the step reports
\* for the rule plus those left unreported are those that were unreported
\* plus the decision the step makes for the rule, if it makes one; a report
\* leaves none unreported.  Summed over the steps: the RequestCounts of all
\* documents of the rule plus its unreported count are the decisions made for
\* it.
C23_EveryDecisionReportedOnce ==
  [][\A n \in RuleNames :
       SameRule(n) =>
         LET decided ==
               IF /\ ret'.op = "shouldSample" /\ ret'.via = "rule"
                  /\ ruleAppliers[ret'.matched].samplingRule.RuleName = n
               THEN 1 ELSE 0
             reports == ret'.op = "createSamplingStatisticsDocuments"
             reported == IF reports THEN Reported(ret'.documents, n) ELSE 0
         IN  /\ reported + Unreported(ruleAppliers', n)
                  = Unreported(ruleAppliers, n) + decided
             /\ reports => Unreported(ruleAppliers', n) = 0]_vars

\* updateTargets has put a new applier with a quota in the place of one that
\* had counted two requests, and the new one holds the count
C23_Witness ==
  /\ ret.op = "updateTargets"
  /\ \E i \in 1..Len(ruleAppliers) :
       /\ ruleAppliers[i].isNew /\ ruleAppliers[i].hasTarget
       /\ ruleAppliers[i].statistics.RequestCount = 2


\* the appliers are in (Priority ascending, RuleName ascending) order
SortedByPriority(appliers) ==
  \A i, j \in 1..Len(appliers) :
    i < j =>
      \/ appliers[i].samplingRule.Priority < appliers[j].samplingRule.Priority
      \/ /\ appliers[i].samplingRule.Priority = appliers[j].samplingRule.Priority
         /\ ~NameLess(appliers[j].samplingRule.RuleName,
                      appliers[i].samplingRule.RuleName)

\* C24: before and after every updateRules and updateTargets the cached
\* appliers are ordered by Priority ascending and, at equal Priority, by
\* RuleName ascending; updateRules leaves the rules it was given, in that
\* order, and updateTargets leaves at every position an applier of the rule
\* that was there.
C24_AppliersStaySorted ==
  [][/\ SortedByPriority(ruleAppliers)
     /\ SortedByPriority(ruleAppliers')
     /\ ret'.op = "updateRules" =>
          {ruleAppliers'[i].samplingRule : i \in 1..Len(ruleAppliers')} = ret'.rules
     /\ ret'.op = "updateTargets" =>
          /\ Len(ruleAppliers') = Len(ruleAppliers)
          /\ \A i \in 1..Len(ruleAppliers) :
               ruleAppliers'[i].samplingRule = ruleAppliers[i].samplingRule]_vars

\* two rules of one Priority, cached in the order of their names, the second
\* with a target that updateTargets has just put in
C24_Witness ==
  /\ ret.op = "updateTargets"
  /\ Len(ruleAppliers) = 2
  /\ ruleAppliers[1].samplingRule.Priority = ruleAppliers[2].samplingRule.Priority
  /\ NameLess(ruleAppliers[1].samplingRule.RuleName, ruleAppliers[2].samplingRule.RuleName)
  /\ ~ruleAppliers[1].hasTarget
  /\ ruleAppliers[2].hasTarget /\ ruleAppliers[2].isNew


\* C25: updateTargets leaves lastUpdatedEpochMillis, and with it the answer
\* of isExpired, as it was; the cache holds as many appliers as before, of
\* the same rule names in the same places; and every applier whose RuleName
\* no received target carries is the instance it was, with its quota, its
\* reservoir and its statistics.
C25_UpdateTargetsFrame ==
  [][ret'.op = "updateTargets" =>
       /\ lastUpdatedEpochMillis' = lastUpdatedEpochMillis
       /\ isExpired(lastUpdatedEpochMillis', now') = isExpired(lastUpdatedEpochMillis, now)
       /\ Len(ruleAppliers') = Len(ruleAppliers)
       /\ \A i \in 1..Len(ruleAppliers) :
            /\ ruleAppliers'[i].samplingRule.RuleName = ruleAppliers[i].samplingRule.RuleName
            /\ (\A t \in ret'.targets : t.RuleName # ruleAppliers[i].samplingRule.RuleName)
                 => /\ ~ruleAppliers'[i].isNew
                    /\ ruleAppliers'[i] = [ruleAppliers[i] EXCEPT !.isNew = FALSE]]_vars

\* targets for Default alone have arrived: the applier of the rule test is
\* the one it was, with the quota of an earlier target and the requests it
\* has counted, next to a new applier of Default
C25_Witness ==
  /\ ret.op = "updateTargets"
  /\ \A t \in ret.targets : t.RuleName = "Default"
  /\ Len(ruleAppliers) = 2
  /\ \E i, j \in 1..2 :
       /\ ruleAppliers[i].samplingRule.RuleName = "test"
       /\ ~ruleAppliers[i].isNew /\ ruleAppliers[i].hasTarget
       /\ ruleAppliers[i].quota = 2
       /\ ruleAppliers[i].statistics.RequestCount > 0
       /\ ruleAppliers[j].samplingRule.RuleName = "Default"
       /\ ruleAppliers[j].isNew /\ ruleAppliers[j].hasTarget


\* the record with the three correlation fields of the span
Correlated(record, span) ==
  [k \in DOMAIN record \cup {"trace_id", "span_id", "trace_flags"} |->
     CASE k = "trace_id" -> span.traceId
       [] k = "span_id" -> span.spanId
       [] k = "trace_flags" -> IF span.traceFlags = 1 THEN <<"0", "1">> ELSE <<"0", "0">>
       [] OTHER -> record[k]]

\* C26: the patched _emit does not throw and calls the original _emit once,
\* with the arguments it was called with, whatever the configuration, the
\* span and the logHook, a logHook that throws included (its error goes to
\* the diagnostics).  The record reaches the original with trace_id, span_id
\* and trace_flags of the active span written to it, and after the logHook
\* if there is one, exactly when the instrumentation is enabled,
\* disableLogCorrelation is false and the active context holds a span with a
\* valid span context; in every other case the record reaches the original
\* as it came and the logHook is not called.
C26_PatchedEmitCallsOriginalOnce ==
  [][ret'.op = "_emit" =>
       LET in == ret.emit
           out == ret'.emit
           correlates ==
             /\ in.enabled /\ ~in.config.disableLogCorrelation
             /\ ~in.span.none /\ in.span.traceId # INVALID_TRACEID
             /\ in.span.spanId # INVALID_SPANID
           correlated == Correlated(in.record, in.span)
           hook == in.config.logHook
       IN  /\ out.originalCalls = <<in.args>>
           /\ ~out.thrown
           /\ IF correlates
              THEN /\ out.record =
                        IF hook \in {"adds", "adds and throws"}
                        THEN Put(correlated, "resource.service.name", <<"s">>)
                        ELSE correlated
                   /\ out.hookCalls = IF hook = "undefined" THEN 0 ELSE 1
                   /\ out.diagErrors =
                        IF hook \in {"throws", "adds and throws"} THEN 1 ELSE 0
              ELSE /\ out.record = in.record
                   /\ out.hookCalls = 0
                   /\ out.diagErrors = 0]_vars

\* a record logged under a valid span with a logHook that threw: the
\* original _emit was called once, with a record that carries the trace_id
\* of the span in the place of its own
C26_Witness ==
  /\ ret.op = "_emit"
  /\ ret.emit.config.logHook = "throws" /\ ret.emit.diagErrors = 1
  /\ Len(ret.emit.originalCalls) = 1
  /\ ret.emit.span.traceFlags = 1
  /\ DOMAIN ret.emit.record = {"msg", "trace_id", "span_id", "trace_flags"}
  /\ ret.emit.record["trace_id"] = "0af7651916cd43dd8448eb211c80319c"
  /\ ret.emit.record["trace_flags"] = <<"0", "1">>

====
